----------------------------- MODULE VendorRisk -----------------------------
(***************************************************************************)
(* check_vendor_risk: the vendors within MaxDepth hops of a supplier in the  *)
(* graph of recorded relationships. The answer comes from a recursive query  *)
(* over simple paths, of which the shortest per vendor is kept; queries.py   *)
(* holds a breadth-first traversal as its reference ("if you change one,     *)
(* change both"). The query is a formula here, the traversal is run.         *)
(***************************************************************************)
EXTENDS Naturals, Sequences, FiniteSets, SequencesExt

CONSTANTS
  Vendors,   \* suppliers the graph may relate
  Supplier,  \* the one asked about
  MaxDepth   \* MAX_DEPTH

ASSUME VendorAssumption == Supplier \in Vendors /\ IsFiniteSet(Vendors) /\ MaxDepth \in Nat

VARIABLES
  edges,     \* agent_knowledge.vendor_edge, direction and vendors only
  met,       \* traverse: the vendors it has met
  frontier,  \* traverse: the paths it has still to extend, a queue
  found      \* traverse: its answer, a path per vendor

vvars == <<edges, met, frontier, found>>

RiskInit == edges = {} /\ met = {} /\ frontier = <<>> /\ found = {}

(* A question about some graph. *)
Ask ==
  /\ met = {}
  /\ edges' \in SUBSET {e \in Vendors \X Vendors : e[1] # e[2]}
  /\ met' = {Supplier} /\ frontier' = <<<<Supplier>>>> /\ found' = {}

(* Mutant of Unmet: the traversal forgets what it has met. *)
UnmetAll(path) == {v \in Vendors : <<Last(path), v>> \in edges /\ v \notin ToSet(path)}

(* The neighbours the cycle guard lets through. *)
Unmet(path) == {v \in Vendors : <<Last(path), v>> \in edges /\ v \notin met}

(* One turn of the loop. A path has one vendor more than hops. *)
Visit ==
  LET path == Head(frontier)
      on   == IF Len(path) > MaxDepth THEN {} ELSE Unmet(path)
  IN /\ frontier # <<>>
     /\ met' = met \cup on
     /\ found' = found \cup {Append(path, v) : v \in on}
     /\ frontier' = Tail(frontier) \o SetToSeq({Append(path, v) : v \in on})
     /\ UNCHANGED edges

RiskNext == Ask \/ Visit

RiskSpec == RiskInit /\ [][RiskNext]_vvars

-----------------------------------------------------------------------------
(* VENDOR_RISK_SQL: ring holds the simple paths, one hop longer each round. *)

Longer(paths) ==
  {Append(j[1], j[2][2]) : j \in {q \in paths \X edges :
                                   Last(q[1]) = q[2][1] /\ q[2][2] \notin ToSet(q[1])}}

Ring ==
  LET ring[d \in 0..MaxDepth] == IF d = 0 THEN {<<Supplier>>} ELSE Longer(ring[d - 1])
  IN UNION {ring[d] : d \in 1..MaxDepth}

(* DISTINCT ON (vendor) ... ORDER BY vendor, depth: for each vendor one of its shortest. *)
Shortest == {p \in Ring : \A q \in Ring : Last(q) = Last(p) => Len(p) <= Len(q)}

(* The query and the traversal agree: the same vendors, each at the same depth, and every
   chain the traversal cites is one the query may return. A depth bound and a cycle guard
   may not cost a vendor its shorter way in, whatever cycles the graph has. *)
QueryAgrees ==
  met # {} /\ frontier = <<>> =>
    /\ found \subseteq Shortest
    /\ {Last(p) : p \in Shortest} = {Last(p) : p \in found}
    /\ \A p, q \in found : Last(p) = Last(q) => p = q
=============================================================================
