------------------------------ MODULE SapFeed ------------------------------
(***************************************************************************)
(* What a poll makes of the records SAP answers with, as the domain's        *)
(* configuration directs it: the entities, their item lines, the skip        *)
(* conditions, the case's two keys, its process type and mapped fields. The   *)
(* interleaving of a poll with the other writers of a case is CasePipeline's; *)
(* this module is about one poll after another over a feed that holds        *)
(* unusable records.                                                         *)
(***************************************************************************)
EXTENDS Naturals, Sequences, FiniteSets, SequencesExt, TLC

CONSTANTS
  Feeds,        \* answers SAP may give: sequences of entities [fields, lines], where
                \* fields and every line are functions from field names to values
  Config,       \* one domain: by_line, allow_empty, document, item (key specifications),
                \* skip_when (conditions), types (rules), default, mapped (cast by field)
  MaxPolls      \* bound

(* An answer is a list of entities, each with a list of lines. *)
IsList(s) == Len(s) \in Nat /\ DOMAIN s = 1..Len(s)

ASSUME FeedAssumption ==
  /\ MaxPolls \in Nat /\ Config.by_line \in BOOLEAN
  /\ \A answer \in Feeds : IsList(answer) /\ \A e \in DOMAIN answer : IsList(answer[e].lines)

VARIABLES
  feed,      \* the answer being worked through
  at,        \* the entity and the line the loop is at
  created,   \* the case rows polls have put, in order
  polls      \* polls left, how the one in hand stands, and the ids it could not write

fvars == <<feed, at, created, polls>>

(* A value is blank, zero, another number, a text that is none, or an id's word; an
   id's word has no character the codec refuses. *)
Number(v) == v \in {"0", "12"}
Legal(v)  == v \notin {"", "4500/2"}

FeedInit ==
  /\ feed = <<>> /\ at = <<1, 1>> /\ created = <<>>
  /\ polls = [left |-> MaxPolls, stage |-> "idle", failed |-> {}]

-----------------------------------------------------------------------------
(* Reading a record. A field it does not have is blank. *)

NoFields == <<>>
Field(r, f) == IF f \in DOMAIN r THEN r[f] ELSE ""

(* _resolve_scoped: by its scope, or the line's unless that is blank or zero. *)
Scoped(entity, line, path) ==
  CASE path.scope = "parent" -> Field(entity, path.field)
    [] path.scope = "child"  -> Field(line, path.field)
    [] OTHER -> IF Field(line, path.field) \notin {"", "0"} THEN Field(line, path.field)
                ELSE Field(entity, path.field)

(* _eval_skip, conditions one level deep. A comparison with what is no number holds. *)
Holds(c, entity, line) ==
  LET v == Field(CASE c.scope = "parent" -> entity
                   [] c.scope = "child"  -> line
                   [] OTHER -> IF line = NoFields THEN entity ELSE line, c.field) IN
  CASE c.op = "blank"   -> v = ""
    [] c.op = "present" -> v # ""
    [] c.op = "lte"     -> ~Number(v) \/ v = "0"
Applies(c, entity, line) ==
  IF c.op = "and" THEN \A x \in c.conditions : Holds(x, entity, line) ELSE Holds(c, entity, line)

(* _resolve_key: the field, else the fallback, else the line's number. *)
ResolveKey(spec, entity, line, n) ==
  LET v == Field(IF spec.scope = "parent" THEN entity ELSE line, spec.field) IN
  CASE v # "" -> v
    [] v = "" /\ spec.fallback # "" -> spec.fallback
    [] v = "" /\ spec.fallback = "" /\ spec.index -> ToString(n)
    [] OTHER -> ""

(* _resolve_process_type: the first rule that holds, or the default. *)
ProcessType(entity, line) ==
  LET met == SelectSeq(Config.types, LAMBDA t : Applies(t.when, entity, line))
  IN IF met = <<>> THEN Config.default ELSE met[1].then

(* _map_fields: a field that is to be cast and is no number stops the poll, a blank one
   is a zero; an absent field that may be omitted is left out. *)
Castable(spec, v) == ~spec.cast \/ v = "" \/ Number(v)
Mapped(entity, line) ==
  LET v(f) == Scoped(entity, line, Config.mapped[f])
      kept == {f \in DOMAIN Config.mapped : ~(Config.mapped[f].omit /\ v(f) = "")}
  IN [f \in kept |-> IF Config.mapped[f].cast /\ v(f) = "" THEN "0" ELSE v(f)]

-----------------------------------------------------------------------------
(* The loop. *)

(* The lines of an entity: itself if the domain is not by line; an empty one if it has
   none and the domain allows that. *)
Lines(entity) ==
  CASE ~Config.by_line                                        -> <<entity.fields>>
    [] Config.by_line /\ entity.lines = <<>> /\ Config.allow_empty -> <<NoFields>>
    [] OTHER                                                  -> entity.lines

StartPoll(answer) ==
  /\ polls.stage # "running" /\ polls.left > 0
  /\ polls' = [left |-> polls.left - 1, stage |-> "running", failed |-> {}]
  /\ feed' = answer /\ at' = <<1, 1>>
  /\ UNCHANGED created

(* A domain that is not by line has no parents. For the keys, the type and the mapping,
   not for the skip conditions, an empty line stands for its entity. *)
ParentOf(e) == IF Config.by_line THEN feed[e].fields ELSE NoFields
LineOf(e, n) == Lines(feed[e])[n]
Whole(e, n) == IF LineOf(e, n) = NoFields THEN feed[e].fields ELSE LineOf(e, n)

Entity == ParentOf(at[1])
Line   == Whole(at[1], at[2])
Doc    == ResolveKey(Config.document, Entity, Line, at[2])
Item   == ResolveKey(Config.item, Entity, Line, at[2])
Id     == <<Doc, Item>>

Skipped == \/ \E c \in Config.skip_when : Applies(c, Entity, LineOf(at[1], at[2]))
           \/ ~Legal(Doc) \/ ~Legal(Item)
Known   == \E i \in DOMAIN created : created[i].id = Id

(* Mutant of Onward: one line that is passed over ends its entity. *)
OnwardBreaks == at' = <<at[1] + 1, 1>> /\ UNCHANGED feed

(* The next line, or the next entity's first. *)
Onward ==
  /\ at' = IF at[2] < Len(Lines(feed[at[1]])) THEN <<at[1], at[2] + 1>> ELSE <<at[1] + 1, 1>>
  /\ UNCHANGED feed

Ready == polls.stage = "running" /\ at[1] <= Len(feed)

PassOver ==
  /\ Ready /\ (Lines(feed[at[1]]) = <<>> \/ Skipped \/ Known)
  /\ Onward /\ UNCHANGED <<created, polls>>

(* The mapping is outside the try block that guards the write. *)
MapStops == \E f \in DOMAIN Config.mapped : ~Castable(Config.mapped[f], Scoped(Entity, Line, Config.mapped[f]))

Unmade == Ready /\ Lines(feed[at[1]]) # <<>> /\ ~Skipped /\ ~Known

(* The put may raise, which is printed: no row, and the next line is tried. The send after
   it may raise as well, and then the row stays without a message; messages, and who
   recovers a case that has none, are CasePipeline's. *)
Create ==
  /\ Unmade /\ ~MapStops
  /\ \/ /\ created' = Append(created, [id |-> Id, type |-> ProcessType(Entity, Line),
                                       mapped |-> Mapped(Entity, Line)])
        /\ UNCHANGED polls
     \/ polls' = [polls EXCEPT !.failed = @ \cup {Id}] /\ UNCHANGED created
  /\ Onward

Raise ==
  /\ Unmade /\ MapStops
  /\ polls' = [polls EXCEPT !.stage = "raised"]
  /\ UNCHANGED <<feed, at, created>>

EndPoll ==
  /\ polls.stage = "running" /\ at[1] > Len(feed)
  /\ polls' = [polls EXCEPT !.stage = "ended"]
  /\ UNCHANGED <<feed, at, created>>

FeedNext == (\E answer \in Feeds : StartPoll(answer)) \/ PassOver \/ Create \/ Raise \/ EndPoll

FeedSpec == FeedInit /\ [][FeedNext]_fvars

-----------------------------------------------------------------------------
(* A poll misses nothing it passed: of the records before the one it is at (all of them
   once it has ended), each line that no condition skips and whose two keys make an id has
   its case, unless this very poll could not write it, however many unusable lines and
   entities lie between and whatever earlier polls failed to write; and an invoice has one
   case, whatever number of its lines. The records behind one that cannot be mapped wait
   for a poll in which it can. *)
PollMissesNothing ==
  /\ IsInjective([i \in DOMAIN created |-> created[i].id])
  /\ \A e \in 1..Len(feed) : e < at[1] =>
       \A n \in DOMAIN Lines(feed[e]) :
         LET id == <<ResolveKey(Config.document, ParentOf(e), Whole(e, n), n),
                     ResolveKey(Config.item, ParentOf(e), Whole(e, n), n)>>
         IN (/\ \A c \in Config.skip_when : ~Applies(c, ParentOf(e), LineOf(e, n))
             /\ Legal(id[1]) /\ Legal(id[2]))
              => \/ \E i \in DOMAIN created : created[i].id = id
                 \/ id \in polls.failed
  /\ polls.stage = "ended" => at[1] = Len(feed) + 1
=============================================================================
