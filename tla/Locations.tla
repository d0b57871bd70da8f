----------------------------- MODULE Locations -----------------------------
(***************************************************************************)
(* Locations of an organisation, their shifts, and the cached first page   *)
(* of the list of all locations (internal/service/organization_service.go, *)
(* the cache in internal/app/cache.go).                                    *)
(*                                                                         *)
(* A write commits and then deletes the cached page; a failure to delete   *)
(* it is only logged.  Listing reads the locations and their shifts in two *)
(* statements and stores the page, with a time to live.  One name stands   *)
(* for a location's columns and the times of its shifts, a shift is its    *)
(* slot.                                                                   *)
(***************************************************************************)
EXTENDS Integers, FiniteSets

CONSTANTS
  Callers,
  LocationIds,    \* bound: rows of location
  Names,          \* bound: what a location's columns may hold
  MaxSlot,        \* shifts of a location, 4 in the code
  DefaultSlots,   \* the shifts the insert trigger makes
  None            \* no value

Slots == 1..MaxSlot

LocationsAssumption ==
  /\ MaxSlot \in Nat
  /\ DefaultSlots \subseteq Slots
  /\ None \notin Names

VARIABLES
  location,   \* name of every row
  shifts,     \* slots of its shifts
  cache,      \* the cached page and whether it expires
  pc,         \* what each caller's request does next
  hand        \* the page it is reading, or the shift it is to insert

vars == <<location, shifts, cache, pc, hand>>

PCs == {"idle", "inserting", "invalidating", "querying", "reading", "caching"}

Rows == [LocationIds -> Names \cup {None}]
Pages == [names : Rows, slots : [LocationIds -> SUBSET Slots]]
Entries == [page : Pages, expires : BOOLEAN]

CurrentPage == [names |-> location, slots |-> shifts]
EmptyPage == [names |-> [l \in LocationIds |-> None], slots |-> [l \in LocationIds |-> {}]]

NoHand == [page |-> EmptyPage, location |-> None, slot |-> 0]
Hands == [page : Pages, location : LocationIds \cup {None}, slot : 0..MaxSlot]

Exists(l) == location[l] # None

Init ==
  /\ location = EmptyPage.names
  /\ shifts = EmptyPage.slots
  /\ cache = None
  /\ pc = [c \in Callers |-> "idle"]
  /\ hand = [c \in Callers |-> NoHand]

Goto(c, from, to) ==
  /\ pc[c] = from
  /\ pc' = [pc EXCEPT ![c] = to]

Drop(c) == hand' = [hand EXCEPT ![c] = NoHand]

-----------------------------------------------------------------------------
(* Writes: one committed statement, then invalidateLocationListCache *)

\* The trigger gives a new location its default shifts.
CreateOrganizationLocation(c, l, name) ==
  /\ Goto(c, "idle", "invalidating")
  /\ ~Exists(l)
  /\ location' = [location EXCEPT ![l] = name]
  /\ shifts' = [shifts EXCEPT ![l] = DefaultSlots]
  /\ UNCHANGED <<cache, hand>>

\* And UpdateShift.
UpdateLocation(c, l, name) ==
  /\ Goto(c, "idle", "invalidating")
  /\ Exists(l)
  /\ location' = [location EXCEPT ![l] = name]
  /\ UNCHANGED <<shifts, cache, hand>>

DeleteLocation(c, l) ==
  /\ Goto(c, "idle", "invalidating")
  /\ Exists(l)
  /\ location' = [location EXCEPT ![l] = None]
  /\ shifts' = [shifts EXCEPT ![l] = {}]
  /\ UNCHANGED <<cache, hand>>

\* The locations go with their organisation, and the cached page stays.
DeleteOrganization ==
  /\ \E l \in LocationIds : Exists(l)
  /\ location' = EmptyPage.names
  /\ shifts' = EmptyPage.slots
  /\ UNCHANGED <<cache, pc, hand>>

\* Mutant: the next slot is counted, and the limit is not looked at.
CreateCountedShift(c, l) ==
  /\ Goto(c, "idle", "inserting")
  /\ Exists(l)
  /\ hand' = [hand EXCEPT ![c].location = l, ![c].slot = Cardinality(shifts[l]) + 1]
  /\ UNCHANGED <<location, shifts, cache>>

\* The lowest slot that is free when the shifts are read ...
CreateShift(c, l) ==
  LET free == Slots \ shifts[l] IN
  /\ Goto(c, "idle", "inserting")
  /\ Exists(l) /\ free # {}
  /\ hand' = [hand EXCEPT ![c].location = l,
                          ![c].slot = CHOOSE n \in free : \A m \in free : n <= m]
  /\ UNCHANGED <<location, shifts, cache>>

\* ... unless somebody else took it, or the location is gone.
InsertShift(c) ==
  LET l == hand[c].location IN
  /\ pc[c] = "inserting"
  /\ IF Exists(l) /\ hand[c].slot \notin shifts[l]
     THEN /\ shifts' = [shifts EXCEPT ![l] = @ \cup {hand[c].slot}]
          /\ pc' = [pc EXCEPT ![c] = "invalidating"]
     ELSE /\ UNCHANGED shifts
          /\ pc' = [pc EXCEPT ![c] = "idle"]
  /\ Drop(c)
  /\ UNCHANGED <<location, cache>>

DeleteShift(c, l, n) ==
  /\ Goto(c, "idle", "invalidating")
  /\ n \in shifts[l]
  /\ shifts' = [shifts EXCEPT ![l] = @ \ {n}]
  /\ UNCHANGED <<location, cache, hand>>

\* DeleteByPrefix, or a warning in the log.
InvalidateLocationListCache(c) ==
  /\ Goto(c, "invalidating", "idle")
  /\ cache' \in {cache, None}
  /\ UNCHANGED <<location, shifts, hand>>

-----------------------------------------------------------------------------
(* ListAllLocations *)

\* A hit is the answer, a miss goes to the database.
ListAllLocations(c) ==
  /\ cache = None
  /\ Goto(c, "idle", "querying")
  /\ UNCHANGED <<location, shifts, cache, hand>>

QueryLocations(c) ==
  /\ Goto(c, "querying", "reading")
  /\ hand' = [hand EXCEPT ![c].page.names = location]
  /\ UNCHANGED <<location, shifts, cache>>

\* getShiftsByLocationIDs asks for the locations found before.
QueryShifts(c) ==
  /\ Goto(c, "reading", "caching")
  /\ hand' = [hand EXCEPT ![c].page.slots =
                [l \in LocationIds |-> IF hand[c].page.names[l] = None THEN {}
                                       ELSE shifts[l]]]
  /\ UNCHANGED <<location, shifts, cache>>

\* Mutant: the page is stored without a time to live.
CachePageForGood(c) ==
  /\ Goto(c, "caching", "idle")
  /\ cache' \in {cache, [page |-> hand[c].page, expires |-> FALSE]}
  /\ Drop(c)
  /\ UNCHANGED <<location, shifts>>

\* Set, or a warning in the log.
CachePage(c) ==
  /\ Goto(c, "caching", "idle")
  /\ cache' \in {cache, [page |-> hand[c].page, expires |-> TRUE]}
  /\ Drop(c)
  /\ UNCHANGED <<location, shifts>>

\* The time to live of the cached page is over.
Expire ==
  /\ cache # None
  /\ cache.expires
  /\ cache' = None
  /\ UNCHANGED <<location, shifts, pc, hand>>

-----------------------------------------------------------------------------

Proceed(c) ==
  \/ InsertShift(c)
  \/ InvalidateLocationListCache(c)
  \/ QueryLocations(c)
  \/ QueryShifts(c)
  \/ CachePage(c)

Next ==
  \/ \E c \in Callers, l \in LocationIds, name \in Names :
       \/ CreateOrganizationLocation(c, l, name)
       \/ UpdateLocation(c, l, name)
  \/ \E c \in Callers, l \in LocationIds :
       \/ DeleteLocation(c, l)
       \/ CreateShift(c, l)
       \/ \E n \in Slots : DeleteShift(c, l, n)
  \/ DeleteOrganization
  \/ \E c \in Callers : ListAllLocations(c) \/ Proceed(c)
  \/ Expire

\* A request runs to its end, and time passes.
Fairness == WF_vars(Expire) /\ \A c \in Callers : WF_vars(Proceed(c))

Spec == Init /\ [][Next]_vars /\ Fairness

-----------------------------------------------------------------------------
(* Properties *)

\* Every variable keeps its type.
TypeOK ==
  /\ location \in Rows
  /\ shifts \in [LocationIds -> SUBSET Slots]
  /\ cache \in Entries \cup {None}
  /\ pc \in [Callers -> PCs]
  /\ hand \in [Callers -> Hands]

\* Once the locations and shifts change no more, the list is right for good
\* after a while, whatever page was cached, mixed or not invalidated before:
\* the time to live of the cached page sees to it.
ListCatchesUp ==
  <>[][UNCHANGED <<location, shifts>>]_vars
    => <>[](cache = None \/ cache.page = CurrentPage)
=============================================================================
