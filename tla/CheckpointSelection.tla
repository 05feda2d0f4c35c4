------------------------ MODULE CheckpointSelection ------------------------
(***************************************************************************)
(* How publishCheckpoint of web/lib/store.gcp.ts chooses the events of a   *)
(* checkpoint.  The staged pages are read in the order of their document   *)
(* names (digests of their URLs, so any order); an event that occurs on    *)
(* pages of several URLs, aliases of one listing, is kept in its newest    *)
(* observation, and any disagreement refuses the whole publication.        *)
(***************************************************************************)
EXTENDS Integers, Sequences, FiniteSets

CONSTANTS Id, Url,
          Listing,       \* listing identities
          ObservedAt, Size,   \* observation times, sizes of events
          MaxEvents, MaxBytes,
          MaxStaged,     \* bound on the number of staged events
          NoListing,     \* an event without provider listing
          None

ASSUME SelectionAssumption ==
  /\ ObservedAt \subseteq Nat /\ Size \subseteq Nat
  /\ {MaxEvents, MaxBytes, MaxStaged} \subseteq Nat /\ MaxBytes >= 2

Event == [id : Id, url : Url, at : ObservedAt, size : Size, listing : Listing \cup {NoListing}]

ASSUME NoneAssumption == None \notin Event

VARIABLES staged,     \* the events of all pages in the order of reading
          taken,      \* how many of them are behind the loop
          selected,   \* selected[id]
          approximateBytes,
          selecting

selectionVars == <<staged, taken, selected, approximateBytes, selecting>>

SelectionTypeOK ==
  /\ staged \in Seq(Event)
  /\ taken \in 0 .. Len(staged)
  /\ selected \in [Id -> Event \cup {None}]
  /\ \A id \in Id : selected[id] # None => selected[id].id = id
  /\ approximateBytes \in Int /\ approximateBytes <= MaxBytes
  /\ selecting \in {"reading", "published", "refused"}

(* The events of a URL stand together.                                     *)
ByPage(s) ==
  \A i, j, k \in DOMAIN s : i < j /\ j < k /\ s[i].url = s[k].url => s[j].url = s[i].url

SelectionInit ==
  /\ staged \in UNION {[1 .. n -> Event] : n \in 0 .. MaxStaged}
  /\ ByPage(staged)
  /\ taken = 0
  /\ selected = [id \in Id |-> None]
  /\ approximateBytes = 2
  /\ selecting = "reading"

Current == staged[taken + 1]
Prior == selected[Current.id]
Selected == {id \in Id : selected[id] # None}

OnSamePage == \E i \in 1 .. taken : staged[i].url = Current.url /\ staged[i].id = Current.id

(* duplicateListingIdentity of both, and no two observations of one time.  *)
SameListing ==
  /\ Current.listing # NoListing /\ Prior.listing # NoListing
  /\ Current.listing = Prior.listing
Agrees == SameListing /\ Current.at # Prior.at

BytesAfter == approximateBytes + Current.size - (IF Prior = None THEN 0 ELSE Prior.size)
Fits == BytesAfter <= MaxBytes /\ (Prior = None => Cardinality(Selected) < MaxEvents)

Select ==
  /\ Fits
  /\ selected' = [selected EXCEPT ![Current.id] = Current]
  /\ approximateBytes' = BytesAfter

Reading == selecting = "reading" /\ taken < Len(staged)

TakeNew ==
  /\ Reading /\ ~OnSamePage
  /\ Prior = None
  /\ Select
  /\ taken' = taken + 1
  /\ UNCHANGED <<staged, selecting>>

NewerUnchecked == TRUE
Newer == Current.at > Prior.at

TakeNewer ==
  /\ Reading /\ ~OnSamePage
  /\ Prior # None /\ Agrees /\ Newer
  /\ Select
  /\ taken' = taken + 1
  /\ UNCHANGED <<staged, selecting>>

SkipOlder ==
  /\ Reading /\ ~OnSamePage
  /\ Prior # None /\ Agrees /\ ~Newer
  /\ taken' = taken + 1
  /\ UNCHANGED <<staged, selected, approximateBytes, selecting>>

(* Conflicting source event identity, or the checkpoint exceeds its limit. *)
Refuse ==
  /\ Reading
  /\ \/ OnSamePage
     \/ Prior # None /\ ~Agrees
     \/ (Prior # None => Newer) /\ ~Fits
  /\ selecting' = "refused"
  /\ UNCHANGED <<staged, taken, selected, approximateBytes>>

Finish ==
  /\ selecting = "reading" /\ taken = Len(staged)
  /\ selecting' = IF Selected = {} THEN "refused" ELSE "published"
  /\ UNCHANGED <<staged, taken, selected, approximateBytes>>

SelectionNext == TakeNew \/ TakeNewer \/ SkipOlder \/ Refuse \/ Finish

SelectionSpec == SelectionInit /\ [][SelectionNext]_selectionVars

-----------------------------------------------------------------------------
(* Properties *)

Seen == {staged[i] : i \in 1 .. taken}

(* In every order of the pages, what is selected for an event is one of    *)
(* its observations and none seen is newer: an old alias never hides a     *)
(* sold-out or changed session.                                            *)
NewestWins ==
  /\ \A e \in Seen : selected[e.id] # None /\ e.at <= selected[e.id].at
  /\ \A id \in Selected : selected[id] \in Seen /\ selected[id].id = id

(* Events of several pages are one listing: no observation is replaced by  *)
(* that of another listing with the same short id.                         *)
AliasesAgree ==
  \A d, e \in Seen : d.id = e.id => d = e \/ (d.listing = e.listing /\ d.listing # NoListing)
=============================================================================
