------------------------------- MODULE Requests -------------------------------
(***************************************************************************)
(* Reading a POST body: the protocol v2 command request, the classic fetch *)
(* request and the receive-pack request, one pkt-line at a time, and what  *)
(* the handler makes of the outcome.  A data line is modelled by what its  *)
(* text says; "cut" stands for bytes that do not frame a pkt-line.         *)
(***************************************************************************)
EXTENDS Integers, Sequences, FiniteSets, SequencesExt

CONSTANTS
    Bodies,         \* name -> bounds to explore: the parser, the data lines a body may
                    \* hold, and how many packets
    Stored          \* objects of the repository that object-info may ask for

Flush == [k |-> "flush"]
Delim == [k |-> "delim"]
ResponseEnd == [k |-> "end"]
Cut == [k |-> "cut"]

NoCaps == {}
None == "none"

ASSUME RequestsAssumption ==
    \A b \in DOMAIN Bodies :
        /\ Bodies[b].packets \in Nat /\ Bodies[b].parser \in {"v2", "v0", "push"}
        /\ \A p \in Bodies[b].lines : p.k = "command" => p.v # None

\* Data lines.
Command(name) == [k |-> "command", v |-> name]
Format(f) == [k |-> "object-format", v |-> f]
Want(o, caps) == [k |-> "want", v |-> o, caps |-> caps]   \* caps: what follows the oid
Have(o) == [k |-> "have", v |-> o]
BadOid == [k |-> "bad oid"]
Done == [k |-> "done"]
Filter(spec) == [k |-> "filter", v |-> spec]              \* "bad" is a spec not recognised
FlagLine == [k |-> "flag"]                                \* no-progress, ofs-delta
Junk == [k |-> "junk"]
Update(n, caps) == [k |-> "update", v |-> n, caps |-> caps]
RefArg == [k |-> "ref arg"]                               \* symrefs, peel, unborn, ref-prefix
OidArg(o) == [k |-> "oid", v |-> o]

VARIABLES
    bodies,         \* the bounds of this behaviour
    parser,         \* "v2", "v0" or "push"
    body,           \* history: the packets read
    state,          \* "reading", "parsed", "answered"
    req,            \* what has been read of the request
    reply

rqVars == <<bodies, parser, body, state, req, reply>>

Packets == Bodies[bodies].lines \cup {Flush, Delim, ResponseEnd, Cut}

EmptyRequest ==
    [command |-> None, format |-> None, inArgs |-> FALSE, args |-> <<>>,
     wants |-> <<>>, haves |-> <<>>, done |-> FALSE, caps |-> NoCaps, first |-> TRUE,
     commands |-> <<>>]

RQTypeOK ==
    /\ parser \in {"v2", "v0", "push"}
    /\ Len(body) <= Bodies[bodies].packets /\ ToSet(body) \subseteq Packets
    /\ state \in {"reading", "parsed", "answered"}
    /\ reply \in {None, "malformed", "ERR", "404", "pack", "ls-refs", "format", "sizes", "negotiate",
                   "stream", "ingest"}
    /\ (reply # None) <=> (state = "answered")
    /\ req.first => req.wants = <<>> /\ req.commands = <<>>

RQInit ==
    /\ bodies \in DOMAIN Bodies
    /\ parser = Bodies[bodies].parser
    /\ body = <<>> /\ state = "reading" /\ req = EmptyRequest /\ reply = None

------------------------------------------------------------------------------
(* One packet.  Each reader gives the request after the packet, or Refused *)
(* or Parsed as its "state".                                               *)

Reading(r) == [state |-> "reading", req |-> r]
Parsed(r) == [state |-> "parsed", req |-> r]
Refused(r, a) == [state |-> "answered", req |-> [r EXCEPT !.command = a]]

\* (Mutant of ReadV2: a second delimiter is let through.)
ReadV2Lax(r, p) ==
    CASE p.k = "flush" -> IF r.command = None THEN Refused(r, "malformed") ELSE Parsed(r)
      [] p.k = "delim" -> Reading([r EXCEPT !.inArgs = TRUE])
      [] p.k \in {"end", "cut"} -> Refused(r, "malformed")
      [] r.inArgs /\ p.k \notin {"flush", "delim", "end", "cut"} ->
            Reading([r EXCEPT !.args = Append(@, p)])
      [] ~r.inArgs /\ p.k = "command" ->
            IF r.command # None THEN Refused(r, "malformed")
            ELSE Reading([r EXCEPT !.command = p.v])
      [] ~r.inArgs /\ p.k = "object-format" -> Reading([r EXCEPT !.format = p.v])
      [] OTHER -> Reading(r)

\* upload_pack::parse_request: a command and capabilities, a delimiter and
\* arguments, a flush; anything after the flush is not read.
ReadV2(r, p) ==
    CASE p.k = "flush" -> IF r.command = None THEN Refused(r, "malformed") ELSE Parsed(r)
      [] p.k = "delim" -> IF r.inArgs THEN Refused(r, "malformed")
                          ELSE Reading([r EXCEPT !.inArgs = TRUE])
      [] p.k \in {"end", "cut"} -> Refused(r, "malformed")
      [] r.inArgs /\ p.k \notin {"flush", "delim", "end", "cut"} ->
            Reading([r EXCEPT !.args = Append(@, p)])
      [] ~r.inArgs /\ p.k = "command" ->
            IF r.command # None THEN Refused(r, "malformed")
            ELSE Reading([r EXCEPT !.command = p.v])
      [] ~r.inArgs /\ p.k = "object-format" -> Reading([r EXCEPT !.format = p.v])
      [] OTHER -> Reading(r)

\* Only the first want (or command) line carries capabilities.
TakeCaps(r, p) == IF r.first THEN p.caps ELSE r.caps

\* upload_pack_v0::parse_request: wants, haves and flushes in any order, up
\* to done or the end of the body.
ReadV0(r, p) ==
    CASE p.k = "flush" -> Reading(r)
      [] p.k = "done" -> Parsed([r EXCEPT !.done = TRUE])
      [] p.k = "want" -> Reading([r EXCEPT !.wants = Append(@, p.v), !.caps = TakeCaps(r, p),
                                           !.first = FALSE])
      [] p.k = "have" -> Reading([r EXCEPT !.haves = Append(@, p.v)])
      [] p.k = "filter" -> Refused(r, "ERR")
      [] OTHER -> Refused(r, "malformed")

\* receive_pack::parse_request: commands up to the flush, then the pack.
ReadPush(r, p) ==
    CASE p.k = "flush" -> Parsed(r)
      [] p.k = "update" -> Reading([r EXCEPT !.commands = Append(@, p.v),
                                             !.caps = TakeCaps(r, p), !.first = FALSE])
      [] OTHER -> Refused(r, "malformed")

Read(p) ==
    LET next == CASE parser = "v2" -> ReadV2(req, p)
                  [] parser = "v0" -> ReadV0(req, p)
                  [] parser = "push" -> ReadPush(req, p)
    IN /\ state = "reading" /\ Len(body) < Bodies[bodies].packets
       /\ body' = Append(body, p)
       /\ state' = next.state
       /\ IF next.state = "answered"
          THEN reply' = next.req.command /\ UNCHANGED req
          ELSE req' = next.req /\ UNCHANGED reply
       /\ UNCHANGED <<bodies, parser>>

\* The body ends: the v2 and push framings want their flush, the classic
\* one at least a line.
EndOfBody ==
    /\ state = "reading"
    /\ IF parser = "v0" /\ body # <<>>
       THEN state' = "parsed" /\ UNCHANGED reply
       ELSE state' = "answered" /\ reply' = "malformed"
    /\ UNCHANGED <<bodies, parser, body, req>>

------------------------------------------------------------------------------
(* FetchArgs::parse: a fold over the arguments that ends at the first one  *)
(* it does not accept.                                                     *)

NoArgs == [ok |-> TRUE, wants |-> <<>>, haves |-> <<>>, filter |-> None, done |-> FALSE]

\* A want with anything after the oid does not parse as one.
FetchArg(parsed, a) ==
    CASE ~parsed.ok -> parsed
      [] a.k = "want" /\ a.caps = NoCaps /\ parsed.ok -> [parsed EXCEPT !.wants = Append(@, a.v)]
      [] a.k = "have" /\ parsed.ok -> [parsed EXCEPT !.haves = Append(@, a.v)]
      [] a.k = "filter" /\ a.v # "bad" /\ parsed.ok -> [parsed EXCEPT !.filter = a.v]
      [] a.k = "done" /\ parsed.ok -> [parsed EXCEPT !.done = TRUE]
      [] a.k = "flag" /\ parsed.ok -> parsed
      [] OTHER -> [parsed EXCEPT !.ok = FALSE]

FetchArgs(args) ==
    LET parse[n \in 0..Len(args)] ==
            IF n = 0 THEN NoArgs ELSE FetchArg(parse[n - 1], args[n])
    IN parse[Len(args)]

Reply(a) ==
    /\ state' = "answered"
    /\ reply' = a
    /\ UNCHANGED <<bodies, parser, body, req>>

ArgsAre(kinds) == \A i \in DOMAIN req.args : req.args[i].k \in kinds

\* ls-refs refuses an argument it does not know.
LsRefs == IF ArgsAre({"ref arg"}) THEN "ls-refs" ELSE "ERR"

\* object-info takes oids (and size); one the repository lacks fails it all.
ObjectInfo ==
    IF ArgsAre({"oid", "size"}) /\ \A a \in ToSet(req.args) : a.k = "oid" => a.v \in Stored
    THEN "sizes" ELSE "ERR"

\* fetch, up to the plan.
Fetch ==
    LET fetch == FetchArgs(req.args)
    IN IF fetch.ok /\ fetch.wants # <<>> THEN "pack" ELSE "ERR"

\* upload_pack::upload_pack: the checks in their order.  known: the lookup
\* finds the repository (or may create it).
DispatchV2(known) ==
    /\ state = "parsed" /\ parser = "v2"
    /\ Reply(IF req.format \notin {None, "sha1"} THEN "ERR"
              ELSE IF ~known THEN "404"
              ELSE CASE req.command = "ls-refs" -> LsRefs
                     [] req.command = "fetch" -> Fetch
                     [] req.command = "object-format" -> "format"
                     [] req.command = "object-info" -> ObjectInfo
                     [] OTHER -> "ERR")

DispatchV0(known) ==
    /\ state = "parsed" /\ parser = "v0"
    /\ Reply(IF ~known THEN "404"
              ELSE IF req.wants = <<>> THEN "ERR"
              ELSE IF req.done THEN "stream" ELSE "negotiate")

DispatchPush(known) ==
    /\ state = "parsed" /\ parser = "push"
    /\ Reply(IF known THEN "ingest" ELSE "404")

RQNext ==
    \/ \E p \in Packets : Read(p)
    \/ EndOfBody
    \/ \E known \in BOOLEAN : DispatchV2(known) \/ DispatchV0(known) \/ DispatchPush(known)

RQSpec == RQInit /\ [][RQNext]_rqVars

------------------------------------------------------------------------------
(* Properties                                                              *)

\* The lines of a kind among the first n, and in all.
OfFirst(k, s, n) ==
    LET f[i \in 0..Len(s)] ==
            IF i = 0 THEN <<>> ELSE IF s[i].k = k THEN Append(f[i - 1], s[i]) ELSE f[i - 1]
    IN f[n]

Of(k, s) == OfFirst(k, s, Len(s))
Values(s) == [i \in DOMAIN s |-> s[i].v]
Occurs(k, s) == \E i \in DOMAIN s : s[i].k = k
ServedV2 == state = "parsed" \/ reply \in {"pack", "ls-refs", "format", "sizes"}

\* The bodies of a v2 command: exactly one command before the only
\* delimiter, and the flush at the end and nowhere else.  So no proper
\* prefix of an accepted body (a cut connection) is accepted.
FramingV2 ==
    parser = "v2" /\ ServedV2 =>
        /\ body # <<>> /\ Last(body).k = "flush"
        /\ ~Occurs("flush", Front(body)) /\ ~Occurs("end", body) /\ ~Occurs("cut", body)
        /\ \A i, j \in DOMAIN body : body[i].k = "delim" /\ body[j].k = "delim" => i = j
        /\ \E i \in 1..Len(body) :
              /\ body[i].k = "command" /\ req.command = body[i].v
              /\ \A j \in 1..Len(body) :
                    /\ j < i => body[j].k \notin {"command", "delim"}
                    /\ j > i /\ body[j].k = "command" =>
                          \E d \in i..j : body[d].k = "delim"

\* A served fetch is the request the client wrote: every want and have
\* argument in order, the last filter, done if it was there, and no
\* argument the server does not know.
FetchIsWhatWasAsked ==
    LET d == CHOOSE i \in DOMAIN body : body[i].k = "delim"
        args == SubSeq(body, d + 1, Len(body) - 1)
        fetch == FetchArgs(req.args)
    IN reply = "pack" =>
        /\ Occurs("delim", body)
        /\ fetch.wants = Values(Of("want", args)) /\ fetch.wants # <<>>
        /\ fetch.haves = Values(Of("have", args))
        /\ fetch.filter = IF Occurs("filter", args) THEN Last(Of("filter", args)).v ELSE None
        /\ fetch.done = Occurs("done", args)
        /\ \A i \in DOMAIN args : args[i].k \in {"want", "have", "filter", "done", "flag"}

\* A ref listing or a size report answers every argument of the body: none
\* is unknown to it, and no size is missing from the report.  (The sizes come
\* without the oids being checked first, so the last one may still fail it.)
InfoIsWhatWasAsked ==
    LET d == CHOOSE i \in DOMAIN body : body[i].k = "delim"
        args == IF Occurs("delim", body) THEN SubSeq(body, d + 1, Len(body) - 1) ELSE <<>>
    IN \A i \in DOMAIN args :
          /\ reply = "ls-refs" => args[i].k = "ref arg"
          /\ reply = "sizes" => args[i].k = "size" \/ (args[i].k = "oid" /\ args[i].v \in Stored)

\* A classic fetch keeps every want and have up to done, takes its
\* capabilities from the first want alone, streams only after done, and is
\* never served when the client asked for a filter.
ClassicIsWhatWasAsked ==
    reply \in {"stream", "negotiate"} =>
        /\ req.wants = Values(Of("want", body)) /\ req.wants # <<>>
        /\ req.haves = Values(Of("have", body))
        /\ req.caps = Of("want", body)[1].caps
        /\ (reply = "stream") <=> Occurs("done", body)
        /\ \A i \in DOMAIN body : body[i].k \in {"want", "have", "flush", "done"}

\* A push is applied only with its whole command list: the flush was read,
\* every line before it is a command, in order, and the capabilities are
\* those of the first.
PushListWhole ==
    reply = "ingest" =>
        /\ Last(body).k = "flush" /\ req.commands = Values(Front(body))
        /\ \A i \in DOMAIN Front(body) : body[i].k = "update"
        /\ req.caps = IF Len(body) = 1 THEN NoCaps ELSE body[1].caps

\* What is served is what was asked for, in whole: no parser serves a body
\* that was cut, reordered or only partly understood.
ServedIsWhatWasAsked ==
    /\ RQTypeOK /\ FramingV2 /\ FetchIsWhatWasAsked /\ InfoIsWhatWasAsked
    /\ ClassicIsWhatWasAsked /\ PushListWhole
===============================================================================
