----------------------------- MODULE Precedents -----------------------------
(***************************************************************************)
(* What resolved cases teach later ones. A nightly build picks, for each    *)
(* process type, the best completed cases of the lookback and writes each    *)
(* as a precedent row, or, where agent knowledge is not deployed, condenses  *)
(* them into one exemplar document. The get_precedent tool reads the rows    *)
(* back by type, supplier and amount band. Cases are resolved, rated,        *)
(* reopened and grow old meanwhile. A row is only ever written by a build    *)
(* that picks its case.                                                     *)
(***************************************************************************)
EXTENDS Naturals, Sequences, FiniteSets, SequencesExt

CONSTANTS
  Cases,         \* completed or open cases
  TypeOf,        \* the process type of each case
  SupplierOf,    \* its supplier
  AmountOf,      \* the absolute value of its amount, or 0 where there is none
  Lengths,       \* segments the traces of a resolution may have
  OwnedTypes,    \* process types some skill claims
  MaxExemplars,  \* MAX_EXEMPLARS
  MaxPrecedents, \* MAX_PRECEDENTS
  MaxBuilds,     \* bound: nightly builds
  MaxFailures,   \* bound: rows that cannot be written, traces that cannot be condensed
  MaxTurns       \* bound: resolutions, reopenings, ratings and ageings

ASSUME PrecedentAssumption ==
  /\ AmountOf \in [Cases -> Nat] /\ Lengths \subseteq Nat
  /\ MaxExemplars \in Nat \ {0} /\ MaxPrecedents \in Nat \ {0}
  /\ MaxBuilds \in Nat /\ MaxFailures \in Nat /\ MaxTurns \in Nat

VARIABLES
  cases,     \* the cases: completed, rated, segments, updated within the lookback
  build,     \* the build: rows left to write, what is left to condense
  rows,      \* agent_knowledge.precedent: the rating each row holds
  age,       \* the rows, least recently written first (resolved_at is the write's time)
  document,  \* the exemplar document of each process type: the cases in it
  heard,     \* history: cases that were rated negative when the last build began, and
             \* those of them whose row that build wrote
  knowledge, \* whether agent knowledge is deployed
  left       \* what the bounds leave

pvars == <<cases, build, rows, age, document, heard, knowledge, left>>

Types == {TypeOf[c] : c \in Cases}
Ratings == {"none", "positive", "negative"}

PrecedentsTypeOK ==
  /\ \A c \in Cases : /\ cases[c].complete \in BOOLEAN /\ cases[c].recent \in BOOLEAN
                      /\ cases[c].rating \in Ratings
                      /\ cases[c].segments \in Nat
  /\ build.stage \in {"idle", "writing", "condensing"}
  /\ \A c \in DOMAIN rows : rows[c] \in Ratings
  /\ ToSet(age) = DOMAIN rows /\ IsInjective(age)
  /\ \A p \in DOMAIN document : document[p] # {}

PrecedentsInit ==
  /\ cases = [c \in Cases |-> [complete |-> FALSE, recent |-> TRUE,
                               rating |-> "none", segments |-> 0]]
  /\ build = [stage |-> "idle", todo |-> {}, done |-> {}]
  /\ rows = <<>> /\ age = <<>> /\ document = <<>>
  /\ heard = [rejected |-> {}, written |-> {}, whole |-> FALSE]
  /\ knowledge \in BOOLEAN
  /\ left = [builds |-> MaxBuilds, failures |-> MaxFailures, turns |-> MaxTurns]

Turn == left.turns > 0 /\ left' = [left EXCEPT !.turns = @ - 1]
Fails == left.failures > 0 /\ left' = [left EXCEPT !.failures = @ - 1]

-----------------------------------------------------------------------------
(* The cases table, as its other writers change it. A rating is accepted in any status,
   stays when the case is reopened, and does not make the case recent. *)

ResolveCase(c) ==
  /\ Turn /\ ~cases[c].complete
  /\ \E n \in Lengths : cases' = [cases EXCEPT ![c].complete = TRUE, ![c].recent = TRUE,
                                               ![c].segments = @ + n]
  /\ UNCHANGED <<build, rows, age, document, heard, knowledge>>

Reopen(c) ==
  /\ Turn /\ cases[c].complete
  /\ cases' = [cases EXCEPT ![c].complete = FALSE, ![c].recent = TRUE]
  /\ UNCHANGED <<build, rows, age, document, heard, knowledge>>

SaveRating(c, r) ==
  /\ Turn /\ cases[c].rating # r
  /\ cases' = [cases EXCEPT ![c].rating = r]
  /\ UNCHANGED <<build, rows, age, document, heard, knowledge>>

GrowOld(c) ==
  /\ Turn /\ cases[c].recent
  /\ cases' = [cases EXCEPT ![c].recent = FALSE]
  /\ UNCHANGED <<build, rows, age, document, heard, knowledge>>

-----------------------------------------------------------------------------
(* The build. *)

(* _query_successful_cases and _group_by_process_type: completed, within the lookback,
   with a trace. *)
Eligible(p) == {c \in Cases : TypeOf[c] = p /\ cases[c].complete /\ cases[c].recent
                              /\ cases[c].segments > 0}

(* Lower is better, in tenths: RATING_BONUS 0.3 and RATING_PENALTY 0.8. *)
ScoreCase(c) == cases[c].segments * (CASE cases[c].rating = "positive" -> 7
                                       [] cases[c].rating = "negative" -> 18
                                       [] cases[c].rating = "none"     -> 10)

(* _pick_best: the best of a type, a full document's worth. *)
PickBest(p) ==
  CHOOSE best \in SUBSET Eligible(p) :
    /\ Cardinality(best) = MaxExemplars \/ (best = Eligible(p) /\ Cardinality(best) <= MaxExemplars)
    /\ \A a \in best, b \in Eligible(p) \ best : ScoreCase(a) <= ScoreCase(b)

(* What a row will say is read here, not when it is written. The order in which the rows
   are written is left open. *)
Picked == {[case |-> c, rating |-> cases[c].rating] : c \in UNION {PickBest(p) : p \in Types}}

BuildStarts ==
  /\ build.stage = "idle" /\ left.builds > 0
  /\ left' = [left EXCEPT !.builds = @ - 1]
  /\ build' = [stage |-> IF Picked = {} THEN "idle"
                         ELSE IF knowledge THEN "writing" ELSE "condensing",
               todo |-> Picked, done |-> {}]
  /\ heard' = [rejected |-> {c \in Cases : cases[c].rating = "negative"},
               written |-> {}, whole |-> TRUE]
  /\ UNCHANGED <<cases, rows, age, document, knowledge>>

(* Mutant of Upsert: a row that exists keeps its rating. *)
UpsertKeepsRating(c, r) ==
  [x \in DOMAIN rows \cup {c} |-> IF x \in DOMAIN rows THEN rows[x] ELSE r]

(* INSERT ... ON CONFLICT (case_id) DO UPDATE: the rating is replaced with the rest. *)
Upsert(c, r) == [x \in DOMAIN rows \cup {c} |-> IF x = c THEN r ELSE rows[x]]

Rest(one) == [build EXCEPT !.todo = @ \ {one}, !.stage = IF build.todo = {one} THEN "idle" ELSE @]

WriteRow(one) ==
  /\ build.stage = "writing"
  /\ build' = Rest(one)
  /\ \/ /\ rows' = Upsert(one.case, one.rating)
        /\ age' = Append(SelectSeq(age, LAMBDA x : x # one.case), one.case)
        /\ heard' = [heard EXCEPT !.written = @ \cup {one.case}]
        /\ UNCHANGED left
     \/ Fails /\ UNCHANGED <<rows, age>> /\ heard' = [heard EXCEPT !.whole = FALSE]
  /\ UNCHANGED <<cases, document, knowledge>>

(* The older path: the condensed cases of a type replace its document, if there is one
   at all and some skill would read it; a type no longer represented keeps the document
   it has. *)
CondenseOne(one) ==
  LET type == TypeOf[one.case]
      last == \A other \in build.todo \ {one} : TypeOf[other.case] # type
      Kept(ok) == {c \in build.done : TypeOf[c] = type} \cup (IF ok THEN {one.case} ELSE {})
      Into(ok) == IF last /\ Kept(ok) # {} /\ type \in OwnedTypes
                  THEN [p \in DOMAIN document \cup {type} |-> IF p = type THEN Kept(ok) ELSE document[p]]
                  ELSE document
  IN /\ build.stage = "condensing"
     /\ \E ok \in BOOLEAN :
          /\ IF ok THEN UNCHANGED left ELSE Fails
          /\ document' = Into(ok)
          /\ build' = [Rest(one) EXCEPT !.done = IF ok THEN @ \cup {one.case} ELSE @]
     /\ UNCHANGED <<cases, rows, age, heard, knowledge>>

-----------------------------------------------------------------------------
(* get_precedent. *)

Ceilings == <<100, 1000, 10000, 100000>>
AmountBand(a) == Cardinality({i \in DOMAIN Ceilings : a >= Ceilings[i]})

Recency(c) == CHOOSE i \in DOMAIN age : age[i] = c

(* The WHERE clause: an unrated row passes the test on ratings. *)
Matches(c, p, s, a) ==
  /\ TypeOf[c] = p
  /\ s = "" \/ s = SupplierOf[c]
  /\ AmountBand(AmountOf[c]) = AmountBand(a)
  /\ rows[c] # "negative"

(* Rated before unrated, then the most recently written: the first MaxPrecedents. *)
Preferred(x, y) == \/ rows[x] = "positive" /\ rows[y] # "positive"
                   \/ rows[x] = rows[y] /\ Recency(x) > Recency(y)
GetPrecedent(p, s, a) ==
  LET found == {c \in DOMAIN rows : Matches(c, p, s, a)}
  IN {c \in found : Cardinality({d \in found : Preferred(d, c)}) < MaxPrecedents}

(* The cases some later case can be shown. *)
Guiding ==
  {g \in DOMAIN rows : \E c \in Cases : \E s \in {SupplierOf[d] : d \in Cases} \cup {""} :
                         g \in GetPrecedent(TypeOf[c], s, AmountOf[c])}

-----------------------------------------------------------------------------
PrecedentsNext ==
  \/ \E c \in Cases : ResolveCase(c) \/ Reopen(c) \/ GrowOld(c)
  \/ \E c \in Cases, r \in {"positive", "negative"} : SaveRating(c, r)
  \/ BuildStarts
  \/ \E one \in build.todo : WriteRow(one) \/ CondenseOne(one)

PrecedentsSpec == PrecedentsInit /\ [][PrecedentsNext]_pvars

-----------------------------------------------------------------------------
(* A case that was rejected when a build began no longer guides once that build has
   written its row, whatever its row said before; one that still guides is one the build
   left out or failed to write. *)
RejectionIsHeeded ==
  heard.rejected \cap heard.written # {} =>
    heard.rejected \cap heard.written \cap Guiding = {}

(* queries.py:82: "a disposition a human rejected must never come back as guidance". Not
   even a build that starts after the rejection and completes without a failure sees to
   it. *)
RejectedNeverGuides ==
  build.stage = "idle" /\ heard.whole => heard.rejected \cap Guiding = {}
=============================================================================
