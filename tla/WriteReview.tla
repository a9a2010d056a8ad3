----------------------------- MODULE WriteReview -----------------------------
(***************************************************************************)
(* What the console tells a reviewer about a SAP write. A run reads records, *)
(* writes some, and asks leave for others in a notification whose structured *)
(* proposal the model fills in. The runtime keeps an excerpt of every call;   *)
(* from these the console derives, for a write, what stood there before, and  *)
(* for a proposal, whether SAP bears out the values it claims. SAP is changed  *)
(* by others meanwhile. What a step saw and changed in SAP is kept with it as  *)
(* history; the console reads only what the runtime recorded.                 *)
(***************************************************************************)
EXTENDS Naturals, Sequences, FiniteSets, SequencesExt

CONSTANTS
  KeyOf,      \* the keys a call may state, and the document each leads to; "" is none
  Columns,    \* the flat fields of a document
  Figures,    \* values of a field
  Answers,    \* lists of fields an answer may have, navigation properties among them
  Payloads,   \* writes: [op, key, sets], sets from fields to values
  Proposals,  \* [op, key, fields], fields a sequence of [name, current, proposed]
  Unsaid,     \* a current value the model does not state, a proposal it does not make
  MaxFields,  \* MAX_FIELDS
  MaxSteps,   \* bound: tool calls of all runs
  MaxAsides   \* bound: changes to SAP by others

ASSUME ReviewAssumption ==
  /\ MaxFields \in Nat \ {0}
  /\ \A names \in Answers : IsInjective(names)
  /\ MaxSteps \in Nat /\ MaxAsides \in Nat
  /\ Unsaid \notin Figures /\ Unsaid \notin Proposals
  /\ \A w \in Payloads : w.key \in DOMAIN KeyOf

VARIABLES
  sap,       \* the documents: field values and a count of changes
  casetraces,    \* the runs of the case, oldest first: the steps of each
  asked,     \* a question is open, and the case waits for its answer
  asides     \* changes others have left

rvars == <<sap, casetraces, asked, asides>>

ReviewInit ==
  /\ \E v \in Figures :
       sap = [d \in {KeyOf[k] : k \in DOMAIN KeyOf} |->
                [at |-> 0, has |-> [f \in Columns |-> v]]]
  /\ casetraces = <<>> /\ asked = FALSE /\ asides = MaxAsides

Steps == FoldLeft(LAMBDA n, t : n + Len(t), 0, casetraces)
Going == casetraces # <<>> /\ Steps < MaxSteps
Step(s) == casetraces' = [casetraces EXCEPT ![Len(casetraces)] = Append(@, s)]

-----------------------------------------------------------------------------
(* extract_evidence. *)

FirstFields(s) == SubSeq(s, 1, IF Len(s) < MaxFields THEN Len(s) ELSE MaxFields)

(* Of the names in an answer the flat ones: the first MaxFields. *)
ScalarFields(names, values) ==
  LET flat == {i \in DOMAIN names : names[i] \in DOMAIN values}
      kept == {i \in flat : Cardinality({k \in flat : k < i}) < MaxFields}
  IN {[name |-> names[i], value |-> values[names[i]]] : i \in kept}

WriteOps == {"update", "create", "function_import"}

(* The model's proposal, narrowed to the schema's shape or dropped. *)
ProposedWrite(p) ==
  LET usable == SelectSeq(p.fields, LAMBDA f : f.name # "")
  IN IF p.op \notin WriteOps \/ usable = <<>> THEN Unsaid
     ELSE [p EXCEPT !.fields = FirstFields(usable)]

-----------------------------------------------------------------------------
(* The runs. *)

StartRun ==
  /\ casetraces = <<>> \/ asked
  /\ casetraces' = Append(casetraces, <<>>) /\ asked' = FALSE
  /\ UNCHANGED <<sap, asides>>

(* A read states a key in its filter or its identifier, or none. An answer without a
   record in its three envelopes, an error above all, yields no fields. *)
ReadRecord(k, order) ==
  LET d == sap[KeyOf[k]] IN
  /\ Going
  /\ Step([kind |-> "read", key |-> k, fields |-> ScalarFields(order, d.has), saw |-> d])
  /\ UNCHANGED <<sap, asked, asides>>

(* An update changes what it names; a create and a function import change no field of a
   document on record. A write that fails changes nothing. *)
WriteRecord(w, ok) ==
  LET d == KeyOf[w.key]
      sets == IF ok /\ w.op = "update" THEN w.sets ELSE <<>>
  IN /\ Going
     /\ sap' = [sap EXCEPT ![d].at = IF sets = <<>> THEN @ ELSE @ + 1,
                           ![d].has = [f \in Columns |-> IF f \in DOMAIN sets THEN sets[f]
                                                         ELSE sap[d].has[f]]]
     /\ Step([kind |-> "write", op |-> w.op, key |-> w.key, ok |-> ok, saw |-> sap[d],
              fields |-> ScalarFields(SetToSeq(DOMAIN w.sets), w.sets)])
     /\ UNCHANGED <<asked, asides>>

(* A question to a human, with or without a proposal; the run may go on. *)
AskHuman(p) ==
  /\ Going
  /\ asked' = TRUE
  /\ Step([kind |-> "ask", proposal |-> IF p = Unsaid THEN Unsaid ELSE ProposedWrite(p)])
  /\ UNCHANGED <<sap, asides>>

(* Someone else changes a document. *)
SapChanges(d, f, v) ==
  /\ asides > 0 /\ asides' = asides - 1
  /\ sap[d].has[f] # v
  /\ sap' = [sap EXCEPT ![d].at = @ + 1, ![d].has[f] = v]
  /\ UNCHANGED <<casetraces, asked>>

ReviewNext ==
  \/ StartRun
  \/ \E k \in DOMAIN KeyOf, order \in Answers : ReadRecord(k, order)
  \/ \E w \in Payloads, ok \in BOOLEAN : WriteRecord(w, ok)
  \/ \E p \in Proposals \cup {Unsaid} : AskHuman(p)
  \/ \E d \in DOMAIN sap, f \in Columns, v \in Figures : SapChanges(d, f, v)

ReviewSpec == ReviewInit /\ [][ReviewNext]_rvars

-----------------------------------------------------------------------------
(* The console. *)

Lists(step, f)  == \E x \in step.fields : x.name = f
Listed(step, f) == (CHOOSE x \in step.fields : x.name = f).value

Latest(S)   == CHOOSE i \in S : \A k \in S : k <= i
Earliest(S) == CHOOSE i \in S : \A k \in S : i <= k

(* The reads of the record that i, a write of the run, names with a key. *)
ReadsBefore(steps, i) ==
  {j \in 1..i - 1 : /\ steps[j].kind = "read" /\ steps[j].key = steps[i].key
                    /\ steps[i].key # "" /\ steps[i].op # "function_import"}

(* Mutant of BaselineFor: the scan runs forward. *)
FirstRead(steps, i) ==
  IF ReadsBefore(steps, i) = {} THEN 0
  ELSE Earliest(ReadsBefore(steps, i))

(* The last of them, or 0. *)
BaselineFor(steps, i) == IF ReadsBefore(steps, i) = {} THEN 0 ELSE Latest(ReadsBefore(steps, i))

(* One row a field of the write: a before value only where the baseline lists one. *)
AppliedRows(steps, i) ==
  LET b == BaselineFor(steps, i)
      Row(f) == IF b = 0 \/ ~Lists(steps[b], f.name)
                THEN [name |-> f.name, state |-> "no-baseline"]
                ELSE [name |-> f.name, before |-> Listed(steps[b], f.name),
                      state |-> IF Listed(steps[b], f.name) = f.value THEN "unchanged"
                                ELSE "changed"]
  IN IF steps[i].op = "function_import" THEN {}     \* a card instead
     ELSE {Row(f) : f \in steps[i].fields}

(* Mutant of ReadsFor: a read of any record bears on the claim. *)
ScopedToRun(p, steps) == {j \in DOMAIN steps : steps[j].kind = "read"}

(* The reads a claim is held against. *)
ReadsFor(p, steps) ==
  {j \in DOMAIN steps : steps[j].kind = "read" /\ (p.key # "" => steps[j].key = p.key)}

(* A claim is compared with the first value those reads list for its field. *)
ProposedRows(p, steps) ==
  LET Seen(f)  == {j \in ReadsFor(p, steps) : Lists(steps[j], f.name)}
      State(f) == IF f.current = Unsaid THEN "no-baseline"
                  ELSE IF Seen(f) = {} THEN "unverified"
                  ELSE IF Listed(steps[Earliest(Seen(f))], f.name) = f.current THEN "verified"
                  ELSE "mismatch"
  IN {[name |-> p.fields[n].name, before |-> p.fields[n].current, state |-> State(p.fields[n])] :
        n \in DOMAIN p.fields}

Proposing(steps) == {i \in DOMAIN steps : steps[i].kind = "ask" /\ steps[i].proposal # Unsaid}

(* The newest run that proposed anything; its number, or 0. *)
PendingRun ==
  LET some == {n \in DOMAIN casetraces : Proposing(casetraces[n]) # {}}
  IN IF some = {} THEN 0 ELSE Latest(some)
PendingProposal ==
  LET steps == casetraces[PendingRun] IN steps[Latest(Proposing(steps))].proposal

-----------------------------------------------------------------------------
(* "A before value is never fabricated": if the run had read the record since it was last
   changed, by whomever, and the read listed the field, the value shown as before is what
   stood in SAP when the write was made. A write later in the run, or somebody else's, may
   make it stale; the cap and the order of fields may only cost the row its before. *)
BeforeIsWhatStood ==
  \A n \in DOMAIN casetraces : LET steps == casetraces[n] IN
    \A i \in DOMAIN steps : steps[i].kind = "write" =>
      \A row \in AppliedRows(steps, i) :
        /\ row.state # "no-baseline" => \E j \in ReadsBefore(steps, i) :
             steps[j].saw.has[row.name] = row.before
        /\ row.state # "no-baseline"
             /\ (\E j \in ReadsBefore(steps, i) : steps[j].saw.at = steps[i].saw.at)
             => row.before = steps[i].saw.has[row.name]

(* "A value read off a different document is not evidence about this one": a claim shown
   as verified is a value that SAP held in the document the proposal names, when this run
   read it; one shown as a mismatch is one that SAP contradicted. *)
ClaimsAreCheckedInSap ==
  PendingRun # 0 =>
    LET steps == casetraces[PendingRun]
        p == PendingProposal
        reads == {j \in DOMAIN steps : steps[j].kind = "read" /\ (p.key # "" => steps[j].key = p.key)}
        Sap(j, f) == steps[j].saw.has[f]
    IN \A row \in ProposedRows(p, steps) :
         /\ row.state = "verified" => \E j \in reads : Sap(j, row.name) = row.before
         /\ row.state = "mismatch" => \E j \in reads : Sap(j, row.name) # row.before
=============================================================================
