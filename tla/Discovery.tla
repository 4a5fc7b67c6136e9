------------------------------ MODULE Discovery ------------------------------
(***************************************************************************)
(* Phase I of a fetch, Walker::select_commits: which commits to send for   *)
(* the wanted commits, given the commits the client says it has.  Commits  *)
(* carry a WANT or HAVE mark; the frontier is visited one generation at a  *)
(* time, the highest first, and the walk ends when no WANT is pending.     *)
(* Commits are numbered so that parents come before their children; the    *)
(* order of object ids within a level is left open.                        *)
(***************************************************************************)
EXTENDS Integers, Sequences, FiniteSets, SequencesExt

CONSTANTS
    N,              \* number of commits
    Bounds          \* name -> bounds to explore: the commits used, the numbers of
                    \* wants and of haves, wrong generations up to corruptUpTo (0:
                    \* they are exact), the number of holes, what is recorded

ASSUME DiscoveryAssumption ==
    N \in Nat \ {0} /\ \A b \in DOMAIN Bounds : Bounds[b].commits \in 1..N

VARIABLES
    bound,                                   \* the bounds of this behaviour
    parents, generation, stored, recorded,   \* the repository, fixed for a walk
    wants, haves,                            \* the (peeled) request
    pc,
    disc,           \* struct Discovery: the marks (state), frontier and pending
    level, done, toSend, common, bounded

repoVars == <<bound, parents, generation, stored, recorded>>
vars == <<repoVars, wants, haves, pc, disc, level, done, toSend, common, bounded>>

Commits == 1..N

AtMost(n, S) == {s \in SUBSET S : Cardinality(s) <= n}

\* The graphs whose edges join the first n commits.
Graphs(n) ==
    {p \in [Commits -> AtMost(2, 1..n)] : \A c \in Commits : \A q \in p[c] : q < c /\ c <= n}

ExactGeneration(p) ==
    LET g[c \in Commits] == IF p[c] = {} THEN 1
                            ELSE 1 + Max({g[q] : q \in p[c]})
    IN g

Ancestry(S) ==
    LET a[c \in Commits] == {c} \cup UNION {a[q] : q \in parents[c]}
    IN UNION {a[c] : c \in S}

\* get_commit_info succeeds: the record is there, or the backfill finds
\* every unrecorded commit on the way down.
Resolves(c) ==
    LET r[x \in Commits] == x \in recorded \/ (x \in stored /\ \A q \in parents[x] : r[q])
    IN r[c]

Unknown(c) == c \notin recorded /\ c \notin stored

\* The phases of select_commits, and those of the planner around it.
Phases == {"haves", "wants", "walk", "selected", "error", "stalled"}
              \cup {"partition", "expand", "collect", "planned", "failed"}

DTypeOK ==
    /\ wants \subseteq Commits /\ haves \subseteq Commits
    /\ pc \in Phases
    /\ disc.state \in [Commits -> {"none", "want", "have"}]
    /\ disc.frontier \cup level \cup done \cup common \subseteq Commits
    /\ disc.pending \subseteq {c \in Commits : disc.state[c] = "want"}
    /\ IsInjective(toSend) /\ ToSet(toSend) \subseteq done
    /\ bounded \in BOOLEAN

\* A repository as pushes leave it has every commit; a hole is corruption.
InitRepository ==
    /\ bound \in DOMAIN Bounds
    /\ parents \in Graphs(Bounds[bound].commits)
    /\ generation \in IF Bounds[bound].corruptUpTo = 0 THEN {ExactGeneration(parents)}
                      ELSE [Commits -> 1..Bounds[bound].corruptUpTo]
    /\ \E holes \in AtMost(Bounds[bound].holes, 1..Bounds[bound].commits) :
          stored = Commits \ holes
    /\ recorded \in Bounds[bound].recorded

InitWalk ==
    /\ disc = [state |-> [c \in Commits |-> "none"], frontier |-> {}, pending |-> {}]
    /\ level = {} /\ done = {} /\ toSend = <<>> /\ common = {} /\ bounded = FALSE

Init ==
    /\ InitRepository
    /\ wants \in AtMost(Bounds[bound].wants, 1..Bounds[bound].commits) \ {{}}
    /\ haves \in AtMost(Bounds[bound].haves, 1..Bounds[bound].commits)
    /\ pc = "haves"
    /\ InitWalk

------------------------------------------------------------------------------
\* The commits of S whose mark changes to f.
Changed(d, S, f) == {c \in S : d.state[c] = "none" \/ (d.state[c] = "want" /\ f = "have")}

\* (Mutant of Mark: a WANT inherited from a child does not become pending.)
MarkShallow(d, S, f) ==
    LET changed == Changed(d, S, f)
    IN [state |-> [c \in Commits |-> IF c \in changed THEN f ELSE d.state[c]],
        frontier |-> d.frontier \cup changed,
        pending |-> IF f = "want" /\ pc = "wants" THEN d.pending \cup changed
                    ELSE d.pending \ changed]

\* Discovery::mark on every commit of S: a HAVE absorbs everything, a WANT
\* absorbs another WANT, and a commit whose mark changes is pushed.
Mark(d, S, f) ==
    LET changed == Changed(d, S, f)
    IN [state |-> [c \in Commits |-> IF c \in changed THEN f ELSE d.state[c]],
        frontier |-> d.frontier \cup changed,
        pending |-> IF f = "want" THEN d.pending \cup changed ELSE d.pending \ changed]

\* (Mutant of MarkHaves: a have whose ancestry cannot be read is excused too.)
MarkHavesExcusing ==
    LET known == {h \in haves : Resolves(h)}
    IN /\ pc = "haves"
       /\ pc' = "wants" /\ common' = known /\ disc' = Mark(disc, known, "have")
       /\ UNCHANGED <<repoVars, wants, haves, level, done, toSend, bounded>>

\* The haves: one the server does not know is dropped; one whose ancestry
\* cannot be read fails the walk.
MarkHaves ==
    LET known == {h \in haves : ~Unknown(h)}
    IN /\ pc = "haves"
       /\ IF \A h \in known : Resolves(h)
          THEN pc' = "wants" /\ common' = known /\ disc' = Mark(disc, known, "have")
          ELSE pc' = "error" /\ UNCHANGED <<common, disc>>
       /\ UNCHANGED <<repoVars, wants, haves, level, done, toSend, bounded>>

\* The wants, once they are peeled.
MarkWants ==
    /\ pc = "wants" /\ wants # {}
    /\ IF \A w \in wants : Resolves(w)
       THEN pc' = "walk" /\ disc' = Mark(disc, wants, "want")
       ELSE pc' = "error" /\ UNCHANGED disc
    /\ UNCHANGED <<repoVars, wants, haves, level, done, toSend, common, bounded>>

\* The entries at the top of the generation-keyed heap.
Highest(S) == {c \in S : \A d \in S : generation[c] >= generation[d]}

Popped(frontier) == frontier \ Highest(frontier)

\* Pop the highest generation into one level and load the parents' records.
DrainLevel ==
    /\ pc = "walk" /\ level = {} /\ disc.pending # {}
    /\ IF disc.frontier = {}
       THEN pc' = "stalled" /\ UNCHANGED <<level, disc>>
       ELSE LET next == Highest(disc.frontier) \ done
            IN /\ disc' = [disc EXCEPT !.frontier = Popped(@)]
               /\ IF \A c \in next : \A q \in parents[c] : Resolves(q)
                  THEN level' = next /\ UNCHANGED pc
                  ELSE pc' = "error" /\ UNCHANGED level
    /\ UNCHANGED <<repoVars, wants, haves, done, toSend, common, bounded>>

\* Emit a WANT and hand the commit's mark on to its parents.
Visit(c) ==
    /\ pc = "walk" /\ c \in level
    /\ level' = level \ {c}
    /\ done' = done \cup {c}
    /\ IF disc.state[c] = "want"
       THEN /\ toSend' = Append(toSend, c)
            /\ disc' = Mark([disc EXCEPT !.pending = @ \ {c}], parents[c], "want")
       ELSE /\ UNCHANGED toSend
            /\ disc' = Mark(disc, parents[c], "have")
    /\ UNCHANGED <<repoVars, wants, haves, pc, common, bounded>>

\* (Mutant of Selected: any recognised have counts as a bound.)
SelectedCommon ==
    /\ pc = "walk" /\ level = {} /\ disc.pending = {}
    /\ pc' = "selected"
    /\ bounded' = (common # {})
    /\ UNCHANGED <<repoVars, wants, haves, disc, level, done, toSend, common>>

Selected ==
    /\ pc = "walk" /\ level = {} /\ disc.pending = {}
    /\ pc' = "selected"
    /\ bounded' = (disc.frontier # {})
    /\ UNCHANGED <<repoVars, wants, haves, disc, level, done, toSend, common>>

Step ==
    \/ MarkHaves \/ MarkWants \/ DrainLevel \/ Selected
    \/ \E c \in Commits : Visit(c)

Spec == Init /\ [][Step]_vars /\ WF_vars(Step)

------------------------------------------------------------------------------
(* Properties                                                              *)

Sent == ToSet(toSend)

\* The frontier never empties while a WANT is pending: DiscoveryStalled,
\* "believed unreachable even with corrupt commit-graph generations".
NeverStalls == pc # "stalled"

ParentClosed(S) == \A c \in S : parents[c] \subseteq S

\* A selection is complete: with any parent-closed set that holds the
\* recognised haves (what the client has is one), the commits sent hold the
\* wants and all their ancestors, whatever the recorded generations say
\* ("never a silently incomplete pack").
NoGap ==
    pc = "selected" =>
        \A A \in SUBSET Commits :
            common \subseteq A /\ ParentClosed(A) =>
                wants \subseteq Sent \cup A /\ ParentClosed(Sent \cup A)

\* With exact generations nothing the client has is sent: a HAVE reaches a
\* shared ancestor before that ancestor is visited as a WANT.
NothingCommonSent ==
    generation = ExactGeneration(parents) => Sent \cap Ancestry(common) = {}

\* Only the have itself is excused: a walk that succeeds has read the
\* record of every recognised have and of every commit it sends, and a walk
\* fails only over a commit that is missing below a want or a have.
HolesSurface ==
    /\ pc = "selected" =>
          /\ \A h \in haves : h \in common \/ Unknown(h)
          /\ \A c \in Sent : Resolves(c) /\ \A q \in parents[c] : Resolves(q)
    /\ pc = "error" => \E c \in Ancestry(wants \cup haves) : Unknown(c)

\* The selection is never short of a commit the client lacks, and the walk
\* never stalls, whatever generations are recorded.
DiscoveryComplete == DTypeOK /\ NeverStalls /\ NoGap

==============================================================================
