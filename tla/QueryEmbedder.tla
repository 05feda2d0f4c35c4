--------------------------- MODULE QueryEmbedder ---------------------------
(***************************************************************************)
(* web/lib/query-embedding.ts: the process-wide embedder of search texts.  *)
(* It caches vectors, shares a call that is under way, paces the calls to  *)
(* the provider in a rolling window by reserving their start times, and    *)
(* keeps quiet for a while after HTTP 429.                                 *)
(*                                                                         *)
(* One action is one uninterrupted run of the event loop.  Timers fire on  *)
(* time: the clock does not pass the wake-up time of a sleeper.  Provider  *)
(* calls take any time.                                                    *)
(***************************************************************************)
EXTENDS Integers, Sequences, FiniteSets, SequencesExt

CONSTANTS Caller,          \* searches, one text each
          Text,            \* normalized query texts
          NoCaller,
          CallsPerWindow, WindowMs, MaxWaitMs, CooldownMs, CacheEntries, CacheTtlMs,
          Horizon          \* bound: no search starts after this time

ASSUME LimitsAssumption ==
  /\ CallsPerWindow \in Nat \ {0} /\ CacheEntries \in Nat \ {0}
  /\ {WindowMs, MaxWaitMs, CooldownMs, CacheTtlMs, Horizon} \subseteq Nat
  /\ NoCaller \notin Caller

VARIABLES clock,
          cache,         \* Map in insertion order: <<[text, at], ...>>
          inFlight,      \* inFlight[t]: the caller whose request for t is pending
          starts,        \* reserved start times, sorted
          blockedUntil,
          doing,         \* per caller: idle, sleeping, calling, joined, done
          text,          \* what it searches for
          wakeAt,        \* start of its reserved slot
          reply,
          called         \* history: who called the provider, and when

embedderVars == <<clock, cache, inFlight, starts, blockedUntil, doing, text, wakeAt, reply, called>>

EmbedderTypeOK ==
  /\ clock \in Nat
  /\ cache \in Seq([text : Text, at : Nat]) /\ Len(cache) <= CacheEntries
  /\ inFlight \in [Text -> Caller \cup {NoCaller}]
  /\ starts \in Seq(Nat)
  /\ blockedUntil \in Nat
  /\ doing \in [Caller -> {"idle", "sleeping", "calling", "joined", "done"}]
  /\ text \in [Caller -> Text]
  /\ wakeAt \in [Caller -> Nat]
  /\ reply \in [Caller -> {"none", "vector", "busy", "error"}]
  /\ called \in SUBSET (Caller \X Nat)

EmbedderInit ==
  /\ clock = 0
  /\ cache = <<>>
  /\ inFlight = [t \in Text |-> NoCaller]
  /\ starts = <<>>
  /\ blockedUntil = 0
  /\ doing = [c \in Caller |-> "idle"]
  /\ text \in [Caller -> Text]
  /\ wakeAt = [c \in Caller |-> 0]
  /\ reply = [c \in Caller |-> "none"]
  /\ called = {}

-----------------------------------------------------------------------------
(* The cache *)

IsCached(t) == \E i \in DOMAIN cache : cache[i].text = t
Position(t) == CHOOSE i \in DOMAIN cache : cache[i].text = t
EntryOf(t) == cache[Position(t)]
Without(t) == IF IsCached(t) THEN RemoveAt(cache, Position(t)) ELSE cache
Fresh(t) == IsCached(t) /\ clock - EntryOf(t).at <= CacheTtlMs

(* cached(): a fresh entry moves to the newest position, a stale one goes. *)
Touched(t) == IF Fresh(t) THEN Append(Without(t), EntryOf(t)) ELSE Without(t)

(* remember(): Map.set keeps the position of a key that is there.          *)
Remembered(t) ==
  LET entry == [text |-> t, at |-> clock]
      full == IF IsCached(t) THEN ReplaceAt(cache, Position(t), entry) ELSE Append(cache, entry)
  IN  IF Len(full) > CacheEntries THEN Tail(full) ELSE full

-----------------------------------------------------------------------------
(* The pacer *)

(* What is filtered out of a sorted array is a beginning of it.            *)
Outdated == {i \in DOMAIN starts : starts[i] <= clock - WindowMs}
RecentStarts == SubSeq(starts, Cardinality(Outdated) + 1, Len(starts))

(* Off by one: the oldest recent start frees the next slot.                *)
OldestStartAt ==
  IF Len(RecentStarts) < CallsPerWindow THEN clock ELSE RecentStarts[1] + WindowMs
StartAt ==
  IF Len(RecentStarts) < CallsPerWindow THEN clock
  ELSE RecentStarts[Len(RecentStarts) - CallsPerWindow + 1] + WindowMs

(* Pushed and sorted: a start stands behind those that are not later.      *)
NotLater == {i \in DOMAIN RecentStarts : RecentStarts[i] <= StartAt}
StartsReserved == InsertAt(RecentStarts, Cardinality(NotLater) + 1, StartAt)

Busy == clock < blockedUntil \/ StartAt - clock > MaxWaitMs

(* The timestamps reserve() has written when it throws.                    *)
StartsWhenBusy == IF clock < blockedUntil THEN starts ELSE RecentStarts

-----------------------------------------------------------------------------
(* queryEmbed for one text, up to its first await *)

Asks(c) == doing[c] = "idle" /\ clock <= Horizon

Hit(c) ==
  /\ Asks(c)
  /\ Fresh(text[c])
  /\ cache' = Touched(text[c])
  /\ doing' = [doing EXCEPT ![c] = "done"]
  /\ reply' = [reply EXCEPT ![c] = "vector"]
  /\ UNCHANGED <<clock, inFlight, starts, blockedUntil, text, wakeAt, called>>

Join(c) ==
  /\ Asks(c)
  /\ ~Fresh(text[c])
  /\ inFlight[text[c]] # NoCaller
  /\ cache' = Touched(text[c])
  /\ doing' = [doing EXCEPT ![c] = "joined"]
  /\ UNCHANGED <<clock, inFlight, starts, blockedUntil, text, wakeAt, reply, called>>

(* Neither a cached vector nor a pending request: a call must be made.     *)
MissesCache(c) == ~Fresh(text[c])
Misses(c) == ~Fresh(text[c]) /\ inFlight[text[c]] = NoCaller

Skip(c) ==
  /\ Asks(c)
  /\ Misses(c)
  /\ Busy
  /\ cache' = Touched(text[c])
  /\ starts' = StartsWhenBusy
  /\ doing' = [doing EXCEPT ![c] = "done"]
  /\ reply' = [reply EXCEPT ![c] = "busy"]
  /\ UNCHANGED <<clock, inFlight, blockedUntil, text, wakeAt, called>>

Reserve(c) ==
  /\ Asks(c)
  /\ Misses(c)
  /\ ~Busy
  /\ cache' = Touched(text[c])
  /\ starts' = StartsReserved
  /\ wakeAt' = [wakeAt EXCEPT ![c] = StartAt]
  /\ inFlight' = [inFlight EXCEPT ![text[c]] = c]
  /\ IF StartAt > clock
     THEN doing' = [doing EXCEPT ![c] = "sleeping"] /\ UNCHANGED called
     ELSE doing' = [doing EXCEPT ![c] = "calling"] /\ called' = called \cup {<<c, clock>>}
  /\ UNCHANGED <<clock, blockedUntil, text, reply>>

(* After the sleep the provider is called, whatever happened meanwhile.    *)
Wake(c) ==
  /\ doing[c] = "sleeping"
  /\ clock >= wakeAt[c]
  /\ doing' = [doing EXCEPT ![c] = "calling"]
  /\ called' = called \cup {<<c, clock>>}
  /\ UNCHANGED <<clock, cache, inFlight, starts, blockedUntil, text, wakeAt, reply>>

-----------------------------------------------------------------------------
(* The provider's answer settles the shared promise *)

(* The owner of the call and everybody who joined it.                      *)
OwnerOnly(c) == {c}
Waiting(c) == {c} \cup {d \in Caller : doing[d] = "joined" /\ text[d] = text[c]}

Settle(c, outcome) ==
  /\ doing[c] = "calling"
  /\ doing' = [d \in Caller |-> IF d \in Waiting(c) THEN "done" ELSE doing[d]]
  /\ reply' = [d \in Caller |-> IF d \in Waiting(c) THEN outcome ELSE reply[d]]
  /\ inFlight' = [inFlight EXCEPT ![text[c]] = NoCaller]
  /\ UNCHANGED <<clock, starts, text, wakeAt, called>>

Succeed(c) ==
  /\ Settle(c, "vector")
  /\ cache' = Remembered(text[c])
  /\ UNCHANGED blockedUntil

(* A 429 starts the cooldown; any other failure or the timeout does not.   *)
Refuse(c) ==
  /\ Settle(c, "error")
  /\ blockedUntil' \in {blockedUntil, clock + CooldownMs}
  /\ UNCHANGED cache

Tick ==
  /\ clock < Horizon + MaxWaitMs
  /\ \A c \in Caller : doing[c] = "sleeping" => clock < wakeAt[c]
  /\ clock' = clock + 1
  /\ UNCHANGED <<cache, inFlight, starts, blockedUntil, doing, text, wakeAt, reply, called>>

Ask(c) == Hit(c) \/ Join(c) \/ Skip(c) \/ Reserve(c)
Answer(c) == Succeed(c) \/ Refuse(c)

EmbedderNext == Tick \/ \E c \in Caller : Ask(c) \/ Wake(c) \/ Answer(c)

EmbedderSpec == EmbedderInit /\ [][EmbedderNext]_embedderVars

(* The event loop runs timers, time passes, and embedWithVoyage answers or *)
(* runs into its timeout.                                                  *)
FairEmbedderSpec == EmbedderSpec /\ WF_embedderVars(Tick) /\ \A c \in Caller : WF_embedderVars(Wake(c)) /\ WF_embedderVars(Answer(c))

-----------------------------------------------------------------------------
(* Properties *)

(* However searches overlap, wait and fail, any window contains at most    *)
(* CallsPerWindow provider calls, so of more calls some two are a window   *)
(* apart: the point of reserving before waiting.                           *)
RollingWindow ==
  \A calls \in SUBSET called :
    Cardinality(calls) > CallsPerWindow =>
      \E first, last \in calls : last[2] - first[2] >= WindowMs

(* A text is paid for once: nobody holds a slot for a text that another    *)
(* caller is fetching, or that is in the cache and fresh.                  *)
Paying(c) == doing[c] \in {"sleeping", "calling"}
PaidOnce ==
  \A c \in Caller : Paying(c) =>
    /\ ~Fresh(text[c])
    /\ \A d \in Caller : Paying(d) /\ text[d] = text[c] => d = c

(* Nobody who joined another search's call is forgotten when it settles.   *)
EverySearchIsAnswered ==
  \A c \in Caller : doing[c] # "idle" ~> doing[c] = "done"

(* After HTTP 429 no query call is made for the cooldown, as the comment   *)
(* on cooldownMs and docs/architecture.md say.  A search that reserved its *)
(* slot before the 429 arrived does call.                                  *)
QuietAfter429 == [][called' # called => clock >= blockedUntil]_embedderVars
=============================================================================
