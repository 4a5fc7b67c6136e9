----------------------------- MODULE Negotiation -----------------------------
(***************************************************************************)
(* A fetch as client and server live it.  Every POST is stateless: it      *)
(* carries the wants and all the haves offered so far, and the server      *)
(* computes its answer from its repository at that moment, with what       *)
(* Selection promises.  Requests and answers may be lost and are retried,  *)
(* and pushes add commits to the server between the rounds.  Protocol v2   *)
(* sends the pack with its first answer; the classic protocol sends it     *)
(* once the client says done.                                              *)
(***************************************************************************)
EXTENDS Integers, Sequences, FiniteSets, SequencesExt

CONSTANTS
    N,               \* number of commits
    Block,           \* haves the client adds per round
    MaxLost,         \* messages that may be lost
    MaxPushes        \* commits the server may gain

ASSUME NegotiationAssumption ==
    N \in Nat \ {0} /\ Block \in Nat \ {0} /\ MaxLost \in Nat /\ MaxPushes \in Nat

Commits == 1..N
Nothing == [kind |-> "none"]

VARIABLES
    parents, wants,
    direct,          \* the request wants trees and blobs only
    protocol,        \* "v2" or "v0"
    detailed,        \* the client negotiated multi_ack_detailed
    server,          \* commits the server has
    client,          \* commits the client has
    pc,              \* the client: "ask", "wait", "complete", "failed"
    offered,         \* haves sent so far
    acked,           \* haves the client was told are common
    ready,           \* the client was told the server is ready
    request, answer, \* the messages in flight
    lost, pushes,
    received         \* history: commits of the pack

fixed == <<parents, wants, direct, protocol, detailed>>
ngVars == <<fixed, server, client, pc, offered, acked, ready, request, answer, lost, pushes,
          received>>

S == INSTANCE Selection WITH Commit <- Commits, NoAnswer <- Nothing, haves <- offered,
                             known <- server

Closed(set) == \A c \in set : parents[c] \subseteq set

NGTypeOK ==
    /\ server \subseteq Commits /\ client \subseteq Commits /\ Closed(server) /\ Closed(client)
    /\ pc \in {"ask", "wait", "complete", "failed"}
    /\ acked \subseteq offered /\ offered \subseteq client
    /\ ready \in BOOLEAN
    /\ request.kind \in {"none", "round", "done"}
    /\ answer.kind \in {"none", "acks", "pack", "ERR"}
    /\ request.kind = "none" \/ answer.kind = "none"

\* Client and server start from any two histories of one commit graph; the
\* client asks for multi_ack_detailed in the classic protocol or not.
NGScene ==
    /\ parents \in [Commits -> SUBSET Commits]
    /\ \A c \in Commits : Cardinality(parents[c]) <= 2 /\ \A q \in parents[c] : q < c
    /\ server \in {s \in SUBSET Commits : Closed(s)}
    /\ client \in {s \in SUBSET Commits : Closed(s)}
    /\ wants \in {{c} : c \in Commits}
    /\ direct \in BOOLEAN
    /\ protocol \in {"v2", "v0"}
    /\ detailed \in IF protocol = "v0" THEN BOOLEAN ELSE {FALSE}

NGStart ==
    /\ pc = "ask" /\ offered = {} /\ acked = {} /\ ready = FALSE
    /\ request = Nothing /\ answer = Nothing /\ lost = 0 /\ pushes = 0 /\ received = {}

NGInit == NGScene /\ NGStart

History == IF direct THEN {} ELSE wants

------------------------------------------------------------------------------
(* The client, as the handlers expect it.                                  *)

\* Another round offers up to Block more haves.
ClientRound ==
    /\ pc = "ask" /\ ~ready
    /\ \E more \in SUBSET (client \ offered) :
          /\ Cardinality(more) \in 1..Block
          /\ offered' = offered \cup more
    /\ request' = [kind |-> "round", haves |-> offered']
    /\ pc' = "wait"
    /\ UNCHANGED <<fixed, server, client, acked, ready, answer, lost, pushes, received>>

\* It says done when the server is ready, when it has no more to offer, or
\* when it gives up.
ClientDone ==
    /\ pc = "ask"
    /\ request' = [kind |-> "done", haves |-> offered]
    /\ pc' = "wait"
    /\ UNCHANGED <<fixed, server, client, offered, acked, ready, answer, lost, pushes, received>>

\* The request or its answer is lost and the client sends it again.
LoseAndRetry ==
    /\ pc = "wait" /\ lost < MaxLost
    /\ lost' = lost + 1
    /\ request' = [kind |-> IF request.kind # "none" THEN request.kind ELSE answer.to,
                   haves |-> offered]
    /\ answer' = Nothing
    /\ UNCHANGED <<fixed, server, client, pc, offered, acked, ready, pushes, received>>

ClientAcks ==
    /\ answer.kind = "acks"
    /\ acked' = acked \cup answer.acks
    /\ ready' = (ready \/ answer.ready)
    /\ pc' = "ask"
    /\ answer' = Nothing
    /\ UNCHANGED <<fixed, server, client, offered, request, lost, pushes, received>>

ClientPack ==
    /\ answer.kind = "pack"
    /\ acked' = acked \cup answer.acks
    /\ client' = client \cup answer.commits
    /\ received' = answer.commits
    /\ pc' = "complete"
    /\ answer' = [answer EXCEPT !.kind = "none"]
    /\ UNCHANGED <<fixed, server, offered, ready, request, lost, pushes>>

ClientError ==
    /\ answer.kind = "ERR"
    /\ pc' = "failed"
    /\ answer' = Nothing
    /\ UNCHANGED <<fixed, server, client, offered, acked, ready, request, lost, pushes, received>>

------------------------------------------------------------------------------
(* The server.                                                             *)

\* A push adds a commit whose parents are there.
ServerPush ==
    /\ pushes < MaxPushes /\ pc \notin {"complete", "failed"}
    /\ \E c \in Commits \ server : parents[c] \subseteq server /\ server' = server \cup {c}
    /\ pushes' = pushes + 1
    /\ UNCHANGED <<fixed, client, pc, offered, acked, ready, request, answer, lost, received>>

\* partition_wants fails on a want the server does not have.
Reject ==
    /\ request.kind # "none" /\ ~(wants \subseteq server)
    /\ answer' = [kind |-> "ERR", to |-> request.kind]
    /\ request' = Nothing
    /\ UNCHANGED <<fixed, server, client, pc, offered, acked, ready, lost, pushes, received>>

\* (Mutant of CommonHaves: an unknown have is acknowledged too.)
CommonHavesAll(haves) == haves

CommonHaves(haves) == haves \cap server

\* ready: something is common and the haves bounded the walk.
Ready(common) == common # {} /\ S!BoundedFor(parents, History, common)

\* (Mutant of Negotiate: a round without a common have gets no answer.)
NegotiateSilent ==
    LET common == CommonHaves(request.haves)
    IN /\ protocol = "v0" /\ request.kind = "round" /\ wants \subseteq server
       /\ common # {}
       /\ answer' = [kind |-> "acks", to |-> "round",
                     acks |-> IF detailed THEN common ELSE {},
                     ready |-> detailed /\ Ready(common)]
       /\ request' = Nothing
       /\ UNCHANGED <<fixed, server, client, pc, offered, acked, ready, lost, pushes, received>>

\* negotiate: Phase I only; the acknowledgements without multi_ack_detailed
\* are reduced to NAK.
Negotiate ==
    LET common == CommonHaves(request.haves)
    IN /\ protocol = "v0" /\ request.kind = "round" /\ wants \subseteq server
       /\ answer' = [kind |-> "acks", to |-> "round",
                     acks |-> IF detailed THEN common ELSE {},
                     ready |-> detailed /\ Ready(common)]
       /\ request' = Nothing
       /\ UNCHANGED <<fixed, server, client, pc, offered, acked, ready, lost, pushes, received>>

PackCommits(common) == S!SentFor(parents, History, common)

\* What is acknowledged before the pack: every common have in a v2 round,
\* the last one in the order of the request in a v0 done round, none in a v2
\* done round.  plan_pack reports no common have when there is no history.
FinalAcks(common) ==
    CASE direct \/ common = {}                              -> {{}}
      [] ~direct /\ common # {} /\ protocol = "v0"          -> {{c} : c \in common}
      [] ~direct /\ common # {} /\ protocol = "v2"          ->
            {IF request.kind = "done" THEN {} ELSE common}

\* ack_done_line and negotiation_prefix say NAK when they have nothing to
\* acknowledge; a v2 done round has no such line.
SaysNak(acks) == acks = {} /\ ~(protocol = "v2" /\ request.kind = "done")

\* stream_done_round, and fetch of protocol v2 with or without done: the
\* walk over this request's haves, the acknowledgement and the pack.  shared
\* is history: the haves the server has at this moment.
StreamPack ==
    /\ request.kind # "none" /\ wants \subseteq server
    /\ protocol = "v2" \/ request.kind = "done"
    /\ \E acks \in FinalAcks(CommonHaves(request.haves)) :
          answer' = [kind |-> "pack", to |-> request.kind, acks |-> acks,
                     nak |-> SaysNak(acks),
                     commits |-> PackCommits(CommonHaves(request.haves)),
                     shared |-> request.haves \cap server]
    /\ request' = Nothing
    /\ UNCHANGED <<fixed, server, client, pc, offered, acked, ready, lost, pushes, received>>

ServerStep == Reject \/ Negotiate \/ StreamPack
ClientStep == ClientRound \/ ClientDone \/ ClientAcks \/ ClientPack \/ ClientError

NGNext == ClientStep \/ ServerStep \/ LoseAndRetry \/ ServerPush

NGSpec == NGInit /\ [][NGNext]_ngVars

------------------------------------------------------------------------------
(* Properties                                                              *)

\* The client ends up complete: it has the wanted commits with all their
\* ancestors, although each round was computed from a different state of
\* the server, and answers were lost and recomputed.
ClientComplete ==
    pc = "complete" /\ ~direct => wants \subseteq client /\ Closed(client)

\* What the server called common it has and keeps treating as common: no
\* acknowledged have, nor anything below it, is sent in the pack.
AckedNeverSent ==
    /\ acked \subseteq server
    /\ received \cap S!Reach(parents, acked) = {}

\* A client that stops because the server said ready gets a pack bounded by
\* its haves, not a clone: no root commit is in it.
ReadyMeansBounded ==
    pc = "complete" /\ ready /\ ~direct => \A c \in received : parents[c] # {}

\* "ACK <last-common> when any have is common, else NAK": the pack is
\* announced with NAK only if the server has none of the haves.  (A fetch
\* of trees and blobs alone is the exception: plan_pack returns before it
\* looks at the haves.)
DoneAckSaysCommon ==
    ~direct /\ answer.kind = "pack" /\ answer.nak => answer.shared = {}

\* Stateless rounds add up: the final pack completes the client, and agrees
\* with every acknowledgement and with every ready it was given before.
NegotiationSound ==
    NGTypeOK /\ ClientComplete /\ AckedNeverSent /\ ReadyMeansBounded /\ DoneAckSaysCommon
==============================================================================
