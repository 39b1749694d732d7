------------------------------- MODULE EventTags -------------------------------
(***************************************************************************)
(* Events (bookmarks) and the attributes they are tagged with              *)
(* (state/bookmarks.ts, persist/bookmarks.ts, persist/eventTagConfig.ts,   *)
(* EventsDrawer.tsx, EventTagConfigEditor.tsx, the agent's event           *)
(* operations): made at the cursor or by an agent, edited, exported,       *)
(* imported from files made here or by hand.                               *)
(*                                                                         *)
(* What a reload brings back is what was there, of persist.  Of an event   *)
(* only its id, its range and its tags matter.                             *)
(***************************************************************************)
EXTENDS Integers, Sequences, FiniteSets, SequencesExt

CONSTANTS
  Attributes,  \* ids of tag attributes
  MaxEvents,
  MaxActs

EventAssumption == {MaxEvents, MaxActs} \subseteq Nat

VARIABLES
  events,   \* bookmarks
  config,   \* ids of eventTagConfig's attributes
  minted,   \* ids made so far
  file,     \* what was last exported
  acts

vars == <<events, config, minted, file, acts>>

(* An id is what it was minted as and the suffixes it was given.           *)
Id(n) == <<n>>
NoId  == <<>>

Ids(list) == {list[i].id : i \in DOMAIN list}

Init ==
  /\ events = <<>> /\ config = Attributes
  /\ minted = 0 /\ file = <<>> /\ acts = 0

Act == acts < MaxActs /\ acts' = acts + 1

-----------------------------------------------------------------------------
(* Events.                                                                 *)

Clamped(n) == IF n < 0 THEN 0 ELSE n

(* addBookmarkAtCursor, addBookmark: an agent's tags are taken as they are.*)
AddBookmark(before, tags) ==
  /\ Len(events) < MaxEvents
  /\ Act
  /\ minted' = minted + 1
  /\ events' = Append(events, [id |-> Id(minted'), before |-> Clamped(before), tags |-> tags])
  /\ UNCHANGED <<config, file>>

RemoveBookmark(id) ==
  /\ id \in Ids(events)
  /\ Act
  /\ events' = SelectSeq(events, LAMBDA e : e.id # id)
  /\ UNCHANGED <<config, minted, file>>

Edited(e, id, new) == IF e.id = id THEN new ELSE e

(* setBookmarkRange; renameBookmark is alike.                              *)
SetBookmarkRange(id, before) ==
  /\ id \in Ids(events)
  /\ Act
  /\ events' = [i \in DOMAIN events |->
                  Edited(events[i], id, [events[i] EXCEPT !.before = Clamped(before)])]
  /\ UNCHANGED <<config, minted, file>>

(* setBookmarkTag: an empty value takes the tag off.                       *)
SetBookmarkTag(id, a, on) ==
  /\ id \in Ids(events)
  /\ Act
  /\ events' = [i \in DOMAIN events |->
       Edited(events[i], id, [events[i] EXCEPT !.tags = IF on THEN @ \cup {a} ELSE @ \ {a}])]
  /\ UNCHANGED <<config, minted, file>>

-----------------------------------------------------------------------------
(* Files.                                                                  *)

ExportEvents ==
  /\ Act
  /\ file' = events
  /\ UNCHANGED <<events, config, minted>>

\* Mutant: the second of two entries of an id gets a suffix no one looks up.
DistinctOnce(id, seen) == IF id \in seen THEN Append(id, 2) ELSE id

(* The least suffix that is free, `_2` first.                              *)
Distinct(id, seen) ==
  IF id \notin seen THEN id
  ELSE Append(id, CHOOSE n \in 2..(Cardinality(seen) + 2) :
                    /\ Append(id, n) \notin seen
                    /\ \A k \in 2..(n - 1) : Append(id, k) \in seen)

(* parseBookmarksImport: entries without an id get a new one, repeated ids *)
(* a suffix; an entry that cannot be read fails the file.                  *)
Parsed(entries) ==
  LET parsed[i \in 0..Len(entries)] ==
        IF i = 0 THEN [list |-> <<>>, minted |-> minted]
        ELSE LET p   == parsed[i - 1]
                 e   == entries[i]
                 new == IF e.id = NoId THEN Id(p.minted + 1) ELSE e.id
             IN [list |-> Append(p.list, [e EXCEPT !.id = Distinct(new, Ids(p.list))]),
                 minted |-> IF e.id = NoId THEN p.minted + 1 ELSE p.minted]
  IN parsed[Len(entries)]

\* Mutant: an entry that is there already is appended all the same.
MergedTwice(list, more) ==
  [i \in DOMAIN list |->
     IF list[i].id \in Ids(more) THEN SelectSeq(more, LAMBDA e : e.id = list[i].id)[1]
     ELSE list[i]] \o more

(* importBookmarks: entries replace events of their id, the others follow. *)
Merged(list, more) ==
  [i \in DOMAIN list |->
     IF list[i].id \in Ids(more) THEN SelectSeq(more, LAMBDA e : e.id = list[i].id)[1]
     ELSE list[i]] \o SelectSeq(more, LAMBDA e : e.id \notin Ids(list))

ImportEvents(entries, replace) ==
  LET p == Parsed(entries)
      result == IF replace THEN p.list ELSE Merged(events, p.list)
  IN /\ \A i \in DOMAIN entries : entries[i].before >= 0
     /\ Len(result) <= MaxEvents
     /\ Act
     /\ events' = result /\ minted' = p.minted
     /\ UNCHANGED <<config, file>>

-----------------------------------------------------------------------------
(* Attributes.                                                             *)

\* Mutant: what an event is tagged with is left alone.
PrunedNot(list, valid) == list

(* pruneOrphanTags.                                                        *)
Pruned(list, valid) ==
  [i \in DOMAIN list |-> [list[i] EXCEPT !.tags = @ \cap valid]]

(* setEventTagConfig, with an imported taxonomy; removeTagAttribute.       *)
SetEventTagConfig(attributes) ==
  /\ attributes # config
  /\ Act
  /\ config' = attributes
  /\ events' = Pruned(events, attributes)
  /\ UNCHANGED <<minted, file>>

TagsOf(list) == UNION {list[i].tags : i \in DOMAIN list}

(* addTagAttribute: its id is new.                                         *)
AddTagAttribute(a) ==
  /\ a \notin config \cup TagsOf(events) \cup TagsOf(file)
  /\ Act
  /\ config' = config \cup {a}
  /\ UNCHANGED <<events, minted, file>>

(* Files are what was exported, or made by hand: of the last id minted     *)
(* here (one made elsewhere before that), with repetitions.                *)
Entries(tags) ==
  [id : {NoId, Id(minted), Append(Id(minted), 2)}, before : {0}, tags : tags]

Files ==
  {file} \cup {<<x, y>> : x \in Entries({Attributes}), y \in Entries({{}})}
         \cup {<<x, y, x>> : x, y \in Entries({{}})}

Next ==
  \/ \E n \in {-1, 1}, tags \in {{}, Attributes} : AddBookmark(n, tags)
  \/ \E id \in Ids(events) :
       \/ RemoveBookmark(id) \/ SetBookmarkRange(id, -1)
       \/ \E a \in Attributes, on \in BOOLEAN : SetBookmarkTag(id, a, on)
  \/ ExportEvents
  \/ \E f \in Files, replace \in BOOLEAN : ImportEvents(f, replace)
  \/ \E attributes \in SUBSET Attributes : SetEventTagConfig(attributes)
  \/ \E a \in Attributes : AddTagAttribute(a)

Spec == Init /\ [][Next]_vars

-----------------------------------------------------------------------------
(* No two events have one id, whatever files by hand repeat: an id is what *)
(* every edit finds its event by (bookmarks.ts:125-205, persist/           *)
(* bookmarks.ts:371-379).                                                  *)
EventIdsUnique == Cardinality(Ids(events)) = Len(events)

(* An exported file that is imported again, after any edits, brings back   *)
(* each of its events once and leaves no other copy; merging keeps the     *)
(* events that are not in it (EventsDrawer.tsx:120-190).                   *)
FaithfulImport ==
  \A replace \in BOOLEAN :
    ImportEvents(file, replace) =>
      /\ \A i \in DOMAIN file :
           Cardinality({j \in DOMAIN events' : events'[j] = file[i]}) = 1
      /\ Ids(events') = Ids(file) \cup (IF replace THEN {} ELSE Ids(events))

ImportIsFaithful == [][FaithfulImport]_vars

(* An attribute that leaves the taxonomy leaves no event tagged with it    *)
(* (bookmarks.ts:35-52, 182-184, 207-213).                                 *)
TagsRetracted ==
  [][TagsOf(events') \cap (config \ config') = {}]_vars
===============================================================================
