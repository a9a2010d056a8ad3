------------------------------ MODULE Guidance ------------------------------
(***************************************************************************)
(* What a run is told: the SOP of its process type, with the contacts and   *)
(* thresholds the SOP cites filled in. Operators edit the overrides through *)
(* the /config API while runs assemble their prompt and, later in the same   *)
(* case, reload the SOP through the load_sop tool or search the corpus; the  *)
(* corpus is republished meanwhile. Prompt and tool are two programs that    *)
(* share the substitution rules (config_overrides.py, mirrored).            *)
(***************************************************************************)
EXTENDS Naturals, Sequences, FiniteSets, SequencesExt

CONSTANTS
  Readers,      \* runs of the agent
  Editors,      \* PUT /config requests, one each
  Contacts,     \* contact keys that occur in the table, in requests or in the SOP
  Symbols,      \* constant symbols of the one skill, likewise
  Declared,     \* the keys CONTACTS_JSON and CONSTANTS_JSON declare
  Values,       \* values a request may carry
  Valid,        \* the values the validators accept
  Bodies,       \* bodies of requests: from some keys to a value or "null"
  Key,          \* object key of the SOP as config.json names it: its extension
  Corpora,      \* states the published corpus may take
  MaxMishaps    \* bound: failed reads and writes of the table, and publications

ASSUME GuidanceAssumption ==
  /\ Declared \subseteq Contacts \cup Symbols /\ Contacts \cap Symbols = {}
  /\ Valid \subseteq Values
  /\ \A b \in Bodies : IsFiniteSet(DOMAIN b) /\ DOMAIN b \subseteq Contacts \cup Symbols
                       /\ \A k \in DOMAIN b : b[k] \in Values \cup {"null"}
  /\ Key \in {"pdf", "txt", "md"}
  /\ Corpora \subseteq [{"pdf", "txt", "md"} -> {"absent", "empty", "rule", "denied"}]
  /\ MaxMishaps \in Nat

VARIABLES
  table,     \* the overrides in the config table
  edits,     \* the requests: their body, what is left to write, the answer
  corpus,    \* the SOP's objects in S3, by extension
  reads,     \* the two reads of each run: of its prompt, and again mid-case
  order,     \* history: the accepted requests in the order they came
  since,     \* history: (table, corpus) of every moment since a read began, of the
             \* first read until the run is over
  mishaps    \* what the bound leaves

gvars == <<table, edits, corpus, reads, order, since, mishaps>>

Settings == Contacts \cup Symbols
Unset    == "unset"
Default  == "default"     \* the value declared at deploy time
Verbatim == "verbatim"    \* the placeholder itself
Extensions == {"pdf", "txt", "md"}
Corpus == [Extensions -> {"absent", "empty", "rule", "denied"}]
NoRead == [stage |-> "idle", how |-> "none", left |-> <<>>, sop |-> "none",
           states |-> [k \in Settings |-> Verbatim], failed |-> FALSE]
NoEdit == [stage |-> "new", body |-> <<>>, left |-> <<>>, alone |-> TRUE]

GuidanceTypeOK ==
  /\ table \in [Settings -> Values \cup {Unset}]
  /\ \A e \in Editors : edits[e].stage \in {"new", "writing", "saved", "refused", "broken"}
  /\ corpus \in Corpus
  /\ \A r \in Readers, n \in {1, 2} :
       /\ reads[r][n].stage \in {"idle", "sop", "contacts", "constants", "done", "failed"}
       /\ reads[r][n].states \in [Settings -> Values \cup {Default, Verbatim}]

GuidanceInit ==
  /\ table = [k \in Settings |-> Unset]
  /\ edits = [e \in Editors |-> NoEdit]
  /\ corpus \in Corpora
  /\ reads = [r \in Readers |-> <<NoRead, NoRead>>]
  /\ since = [r \in Readers |-> <<{}, {}>>]
  /\ order = <<>>
  /\ mishaps = MaxMishaps

Mishap == mishaps > 0 /\ mishaps' = mishaps - 1

(* History: a read that is going on has seen the moment this step leads to. *)
Reading(rs, r, n) == rs[r][n].stage # "idle" /\ rs[r][2].stage \notin {"done", "failed"}
Witness == since' = [r \in Readers |-> [n \in {1, 2} |->
             IF Reading(reads', r, n) \/ Reading(reads, r, n)
             THEN since[r][n] \cup {<<table', corpus'>>} ELSE since[r][n]]]

-----------------------------------------------------------------------------
(* PUT /config. A null asks for the default back and is not checked; any other value
   must be of a declared key and valid. *)

Sound(body) == \A k \in DOMAIN body : body[k] = "null" \/ (k \in Declared /\ body[k] \in Valid)

(* Mutant of PlanWrites: what is valid of a bad request is planned all the same. *)
PlanWritesOfValid(body) ==
  LET good == {k \in DOMAIN body : body[k] = "null" \/ (k \in Declared /\ body[k] \in Valid)}
  IN SetToSeq(good \cap Contacts) \o SetToSeq(good \cap Symbols)

(* _plan_writes: contacts first; nothing at all if anything is wrong. *)
PlanWrites(body) ==
  IF Sound(body) THEN SetToSeq(DOMAIN body \cap Contacts) \o SetToSeq(DOMAIN body \cap Symbols)
                 ELSE <<>>

InFlight == {e \in Editors : edits[e].stage = "writing"}

PutConfig(e, body) ==
  LET plan == PlanWrites(body) IN
  /\ edits[e].stage = "new"
  /\ edits' = [x \in Editors |->
       CASE x = e -> [stage |-> IF plan = <<>> THEN "refused" ELSE "writing",
                      body |-> body, left |-> plan, alone |-> InFlight = {}]
         [] x # e /\ x \in InFlight /\ plan # <<>> -> [edits[x] EXCEPT !.alone = FALSE]
         [] OTHER -> edits[x]]
  /\ order' = IF plan = <<>> THEN order ELSE Append(order, e)
  /\ UNCHANGED <<table, corpus, reads, mishaps>> /\ Witness

(* A null deletes the row, anything else replaces it. *)
Written(value, old) == IF value = "null" THEN Unset ELSE value

WriteOne(e) ==
  LET k == Head(edits[e].left) IN
  /\ edits[e].stage = "writing"
  /\ \/ /\ table' = [table EXCEPT ![k] = Written(edits[e].body[k], @)]
        /\ edits' = [edits EXCEPT ![e].left = Tail(@),
                                  ![e].stage = IF Len(edits[e].left) = 1 THEN "saved" ELSE @]
        /\ UNCHANGED mishaps
     \/ /\ Mishap
        /\ edits' = [edits EXCEPT ![e].stage = "broken"]   \* the rest is never written
        /\ UNCHANGED table
  /\ UNCHANGED <<corpus, reads, order>> /\ Witness

(* Someone syncs knowledge-base/sops/ to the bucket. *)
Publish(c) ==
  /\ Mishap
  /\ c # corpus /\ corpus' = c
  /\ UNCHANGED <<table, edits, reads, order>> /\ Witness

-----------------------------------------------------------------------------
(* The SOP's candidates: for the prompt the key and its alternates, for the tool the
   key and the two text forms, less the PDF it cannot parse. *)

Alternates == [pdf |-> <<"txt", "md">>, txt |-> <<"pdf", "md">>, md |-> <<"txt", "pdf">>]
SopKeyCandidates == <<Key, Alternates[Key][1], Alternates[Key][2]>>

(* Mutant of SopKeys: there are no alternates to a PDF. *)
SopKeysOfText == IF Key = "pdf" THEN <<>> ELSE <<Key, "txt", "md">>

SopKeys == IF Key = "pdf" THEN <<"txt", "md">> ELSE <<Key, "txt", "md">>

(* One run, two reads: 1 assembles the prompt, 2 comes later and is a reload or a
   search. A search has no candidates and no owning skill. *)
Begin(r, n, how) ==
  /\ reads[r][n].stage = "idle"
  /\ n = 1 => how = "prompt"
  /\ n = 2 => how \in {"reload", "search"} /\ reads[r][1].stage = "done"
  /\ reads' = [reads EXCEPT ![r][n] =
       [@ EXCEPT !.how = how, !.stage = IF how = "search" THEN "contacts" ELSE "sop",
                 !.left = CASE how = "prompt" -> SopKeyCandidates
                            [] how = "reload" -> SopKeys
                            [] how = "search" -> <<>>]]
  /\ UNCHANGED <<table, edits, corpus, order, mishaps>> /\ Witness

(* Mutant of Fetched: an object that cannot be read passes for one that is not there. *)
FetchedLeniently(read, object) ==
  CASE object \in {"rule", "empty"} -> [read EXCEPT !.sop = object, !.stage = "contacts"]
    [] object \in {"absent", "denied"} -> [read EXCEPT !.left = Tail(read.left)]

(* One GetObject. An absent object lets the next candidate try, any other failure ends
   the read: SopLoadError for the prompt, an error answer of the tool. *)
Fetched(read, object) ==
  CASE object \in {"rule", "empty"} -> [read EXCEPT !.sop = object, !.stage = "contacts"]
    [] object = "absent"            -> [read EXCEPT !.left = Tail(read.left)]
    [] object = "denied"            -> [read EXCEPT !.stage = "failed", !.failed = TRUE]

Fetch(r, n) ==
  LET read == reads[r][n] IN
  /\ read.stage = "sop" /\ read.left # <<>>
  /\ reads' = [reads EXCEPT ![r][n] = Fetched(read, corpus[Head(read.left)])]
  /\ UNCHANGED <<table, edits, corpus, order, mishaps>> /\ Witness

(* No candidate: the prompt says so and goes on, the tool answers with an error. *)
NoCandidate(r, n) ==
  /\ reads[r][n].stage = "sop" /\ reads[r][n].left = <<>>
  /\ reads' = [reads EXCEPT ![r][n].stage =
                 IF reads[r][n].how = "prompt" THEN "contacts" ELSE "failed"]
  /\ UNCHANGED <<table, edits, corpus, order, mishaps>> /\ Witness

(* What a placeholder becomes, given the override its namespace returned. A contact's
   override wins whether declared or not, a constant's only if the skill declares it;
   a search declares no constants. *)
Stated(k, override, how) ==
  CASE k \in Symbols /\ (how = "search" \/ k \notin Declared) -> Verbatim
    [] k \in Contacts /\ override = Unset /\ k \notin Declared -> Verbatim
    [] OTHER -> IF override = Unset THEN Default ELSE override

(* Mutant of Query: a container keeps what it read when it started. *)
QueryAtColdStart(k) == Unset

(* _query: the table as it is now, never a cached copy. *)
Query(k) == table[k]

(* substitute: one query per namespace, one after the other; one that fails counts as
   a namespace without overrides. *)
Substitute(r, n) ==
  LET read == reads[r][n]
      now  == IF read.stage = "contacts" THEN Contacts ELSE Symbols
      Filled(fails) ==
        [read EXCEPT
           !.stage  = IF read.stage = "contacts" THEN "constants" ELSE "done",
           !.failed = @ \/ fails,
           !.states = [k \in Settings |->
              IF k \in now THEN Stated(k, IF fails THEN Unset ELSE Query(k), read.how)
              ELSE read.states[k]]]
  IN /\ read.stage \in {"contacts", "constants"}
     /\ \/ reads' = [reads EXCEPT ![r][n] = Filled(FALSE)] /\ UNCHANGED mishaps
        \/ /\ Mishap
           /\ reads' = [reads EXCEPT ![r][n] = Filled(TRUE)]
     /\ UNCHANGED <<table, edits, corpus, order>> /\ Witness

-----------------------------------------------------------------------------
GuidanceNext ==
  \/ \E e \in Editors, body \in Bodies : PutConfig(e, body)
  \/ \E e \in Editors : WriteOne(e)
  \/ \E c \in Corpora : Publish(c)
  \/ \E r \in Readers, n \in {1, 2}, how \in {"prompt", "reload", "search"} : Begin(r, n, how)
  \/ \E r \in Readers, n \in {1, 2} : Fetch(r, n) \/ NoCandidate(r, n) \/ Substitute(r, n)

GuidanceSpec == GuidanceInit /\ [][GuidanceNext]_gvars

-----------------------------------------------------------------------------
(* "All-or-nothing. A partially applied edit leaves the corpus in a state no operator
   chose": whatever is in the table was asked for by a request without a single error;
   and whenever no request is in flight, if none has failed midway and no two overlapped,
   every setting is what the last accepted request that names it asked for. Requests that
   do overlap interleave their writes, and a failed write leaves the ones before it. *)
Asked(e, k) == IF edits[e].body[k] = "null" THEN Unset ELSE edits[e].body[k]
Naming(k)   == {i \in DOMAIN order : k \in DOMAIN edits[order[i]].body}
EditsAreWhole ==
  /\ \A k \in Settings : table[k] # Unset =>
       \E e \in ToSet(order) : /\ k \in DOMAIN edits[e].body /\ edits[e].body[k] = table[k]
                               /\ Sound(edits[e].body)
  /\ (\A e \in ToSet(order) : edits[e].stage = "saved" /\ edits[e].alone) =>
       \A k \in Settings :
         /\ Naming(k) = {} => table[k] = Unset
         /\ \A i \in Naming(k) : (\A j \in Naming(k) : j <= i) => table[k] = Asked(order[i], k)

(* "An operator who saves a tolerance expects the next case to use it": every value a
   finished read states is what the table, at some moment since that read began, resolves
   it to, or the deployed default after a failed read. *)
ReadsAreFresh ==
  \A r \in Readers, n \in {1, 2} : reads[r][n].stage = "done" =>
    \A k \in Settings :
      \/ \E m \in since[r][n] : reads[r][n].states[k] = Stated(k, m[1][k], reads[r][n].how)
      \/ reads[r][n].failed /\ reads[r][n].states[k] = Stated(k, Unset, reads[r][n].how)

(* A run works without a SOP only if there was none to read: every candidate was absent
   at some moment of its read, or the one it read was empty. An object it was not allowed
   to read never passes for a missing one ("must fail the case, not silently authorize
   freelancing"). *)
NoSopMeansNone ==
  \A r \in Readers : reads[r][1].stage = "done" /\ reads[r][1].sop # "rule" =>
    IF reads[r][1].sop = "empty"
    THEN \E m \in since[r][1], x \in Extensions : m[2][x] = "empty"
    ELSE \A x \in Extensions : \E m \in since[r][1] : m[2][x] = "absent"

(* "The prompt and a mid-case SOP reload must never state different tolerances": if
   nothing was edited, republished or failed to be read since the run began, and the
   corpus holds no PDF, the reload returns the document the prompt quotes with the same
   values, and finds none only if the prompt had none. *)
ReloadAgrees ==
  \A r \in Readers :
    LET one == reads[r][1]  two == reads[r][2] IN
    /\ two.how = "reload" /\ two.stage \in {"done", "failed"}
    /\ Cardinality(since[r][1]) = 1 /\ ~one.failed /\ ~two.failed
    /\ \A m \in since[r][1] : m[2].pdf = "absent"
    => two.sop = one.sop /\ (two.stage = "done" => two.states = one.states)
=============================================================================
