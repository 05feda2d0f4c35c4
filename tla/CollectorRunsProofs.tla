------------------------ MODULE CollectorRunsProofs ------------------------
(***************************************************************************)
(* CollectorRuns for any sources, providers, limits, ages and cycles, and  *)
(* any number of jobs that crash, stop, lose their runner, their cache or  *)
(* a reply.                                                                *)
(*                                                                         *)
(* No property is inductive.  What a publication contains follows from     *)
(* KnownInv: what a job knows and does not have among its pages is at the  *)
(* server already, which restoring establishes only because the server's   *)
(* pages never get older (ServerInv), and which sending keeps (PublishInv, *)
(* also for the artifact a later job replays).  That a report is complete  *)
(* needs CycleInv, which ties what a cycle has seen to the time it was     *)
(* begun through the file, its cache and memory, and RunInv, which ties    *)
(* the events a run began with to its coverage.                            *)
(*                                                                         *)
(* The last part is about the fair order.  FairShare says what it gives a  *)
(* page that a run does not reach, and RotationInv counts: a page waited   *)
(* for as many runs as have served a share of the other pages since its    *)
(* own turn, and AttemptInv orders turns by time, across cycles.           *)
(***************************************************************************)
EXTENDS CollectorRuns, FiniteSetTheorems, SequenceTheorems, TLAPS

(* A page of a job: taken at one time, which has come at t.                *)
Own(p, t) == p.oldest = p.latest /\ 0 < p.latest /\ p.latest <= t

OwnPages(heads, t) == \A s \in Source : heads[s] # NoPage => Own(heads[s], t)

(* An entry with events is not retired.                                    *)
OwnEntries(entries, t) ==
  \A s \in Source : entries[s] # NoEntry /\ entries[s].page # NoPage =>
    Own(entries[s].page, t) /\ (entries[s].page.active => entries[s].retired = 0)

OwnInv ==
  /\ OwnPages(pages, clock)
  /\ OwnEntries(coverage, clock) /\ OwnEntries(file, clock) /\ OwnEntries(cache, clock)
  /\ artifact # NoArtifact => OwnPages(artifact.pages, clock) /\ artifact.at <= clock
  /\ startedAt <= clock

(* What a cycle has seen was attempted after it was begun.                 *)
SeenAfter(entries, c) ==
  c # NoCycle => \A s \in Source : entries[s] # NoEntry /\ entries[s].seen = c.id =>
    entries[s].attempt > c.begun

CycleInv ==
  /\ cycle # NoCycle => cycle.begun <= clock
  /\ cachedCycle # NoCycle => cachedCycle.begun <= clock
  /\ SeenAfter(coverage, cycle) /\ SeenAfter(file, cycle) /\ SeenAfter(cache, cachedCycle)

(* What waits to be fetched is known, and only a crawl has such pages.     *)
QueueInv ==
  /\ \A i \in 1 .. Len(queue) : coverage[queue[i]] # NoEntry
  /\ pc # "crawl" => queue = << >>

(* A replay publishes a report that is there and newer than the published. *)
ReplayInv ==
  pc = "publish" /\ replay =>
    artifact # NoArtifact /\ pages = artifact.pages /\ reported < artifact.at

(* The server has an observation of s as new as this one.                  *)
Has(heads, s, at) == heads[s] # NoPage /\ at <= heads[s].latest

ServerInv ==
  /\ \A s \in Source : published[s] # NoPage => Has(sources, s, published[s].latest)
  /\ reported <= clock
  /\ pc = "published" => published = sources /\ toSend = {}

(* A page that may still be imported at t.                                 *)
Young(p, t) == p # NoPage /\ t - p.latest <= ImportAge

(* What a job knows and does not have among its pages is at the server.    *)
KnownInv ==
  \A s \in Source :
    /\ pages[s] = NoPage /\ previous[s] # 0 => Has(sources, s, previous[s])
    /\ coverage[s] # NoEntry /\ Young(coverage[s].page, clock) =>
         pages[s] = coverage[s].page \/ Has(sources, s, coverage[s].page.latest)

(* The coverage of a run knows its pages, and the events it began with.    *)
RunInv ==
  pc \in {"listing", "crawl", "stopped"} =>
    /\ ~replay
    /\ \A s \in Source :
         /\ pages[s] # NoPage => coverage[s] # NoEntry /\ coverage[s].page = pages[s]
         /\ previous[s] # 0 \/ Snapshot(s) # 0 => coverage[s] # NoEntry
         /\ pages[s] = NoPage /\ previous[s] # 0 /\ coverage[s].page # NoPage =>
              \/ coverage[s].page.latest <= previous[s]
              \/ coverage[s].page.active /\ startedAt - coverage[s].page.latest > Fresh

(* A page that a publication has not to send is at the server, and so are  *)
(* those of an artifact whose receipt proves its imports.                  *)
Sent(heads, s) == Young(heads[s], clock) => Has(sources, s, heads[s].latest)

PublishInv ==
  /\ pc \in {"publish", "published"} => \A s \in Source : s \in toSend \/ Sent(pages, s)
  /\ pc = "publish" => \A s \in toSend : pages[s] # NoPage
  /\ artifact # NoArtifact /\ artifact.imported => \A s \in Source : Sent(artifact.pages, s)

CollectorInv ==
  /\ TypeOK /\ QueueInv /\ ReplayInv /\ OwnInv /\ CycleInv
  /\ ServerInv /\ KnownInv /\ RunInv /\ PublishInv

-----------------------------------------------------------------------------
(* Types *)

LEMMA Constants ==
  /\ Stamp \subseteq Nat /\ 0 \in Stamp /\ NoPage \notin Page
  /\ MaxDetails \in Nat /\ Fresh \in Nat /\ ImportAge \in Nat /\ MaxEvictions \in Nat
  /\ ImportAge <= Fresh
  /\ NoEntry \notin Entry /\ NoArtifact \notin Artifact
  /\ NoCycle \notin Cycle /\ NoCycle \notin [id : Cycle, begun : Stamp]
  /\ IsFiniteSet(Source)
BY CollectorAssumption, StampAssumption, NoPageAssumption, NoneAssumption

LEMMA PageTypes ==
  ASSUME NEW p \in Page
  PROVE  /\ p # NoPage
         /\ p.oldest \in Nat /\ p.latest \in Nat /\ p.latest \in Stamp /\ p.active \in BOOLEAN
         /\ p.oldest <= p.latest
BY Constants DEF Page

LEMMA HeadTypes ==
  ASSUME NEW heads \in Heads, NEW s \in Source, heads[s] # NoPage
  PROVE  /\ heads[s] \in Page
         /\ heads[s].oldest \in Nat /\ heads[s].latest \in Nat /\ heads[s].latest \in Stamp
         /\ heads[s].active \in BOOLEAN /\ heads[s].oldest <= heads[s].latest
<1>1. heads[s] \in Page
  BY DEF Heads
<1> QED
  BY <1>1, PageTypes

LEMMA NewPage ==
  ASSUME NEW s \in Source, NEW at \in Stamp, NEW active \in BOOLEAN
  PROVE  /\ PageAt(s, at, active) \in Page /\ PageAt(s, at, active) # NoPage
         /\ PageAt(s, at, active).oldest = at /\ PageAt(s, at, active).latest = at
         /\ PageAt(s, at, active).active = active
<1>1. PageAt(s, at, active) \in Page
  BY Constants DEF Page, PageAt
<1> QED
  BY <1>1, Constants DEF PageAt

LEMMA EntryTypes ==
  ASSUME NEW entries \in Coverage, NEW s \in Source, entries[s] # NoEntry
  PROVE  /\ entries[s] \in Entry
         /\ entries[s].attempt \in Stamp /\ entries[s].attempt \in Nat
         /\ entries[s].retired \in Stamp /\ entries[s].reactive \in BOOLEAN
         /\ entries[s].page \in Page \cup {NoPage} /\ entries[s].seen \in Cycle \cup {NoCycle}
BY Constants DEF Coverage, Entry

LEMMA NewEntryTypes ==
  /\ NewEntry \in Entry /\ NewEntry # NoEntry
  /\ NewEntry.page = NoPage /\ NewEntry.seen = NoCycle
  /\ NewEntry.attempt = 0 /\ NewEntry.retired = 0
<1>1. NewEntry \in Entry
  BY Constants DEF NewEntry, Entry
<1>2. /\ NewEntry.page = NoPage /\ NewEntry.seen = NoCycle
      /\ NewEntry.attempt = 0 /\ NewEntry.retired = 0
  BY DEF NewEntry
<1> QED
  BY <1>1, <1>2, Constants

(* The moment a cycle was begun, and the id of a job's cycle.              *)
LEMMA CycleTypes ==
  ASSUME NEW c \in CycleOrNone
  PROVE  /\ Id(c) \in Cycle \cup {NoCycle}
         /\ c # NoCycle => c.id \in Cycle /\ c.begun \in Nat /\ c.begun \in Stamp /\ c.id # NoCycle
                           /\ Id(c) = c.id
BY Constants DEF CycleOrNone, Id

LEMMA RowTypes ==
  ASSUME NEW heads \in Heads, NEW s \in Source
  PROVE  /\ Row(heads[s]) \in Stamp /\ Row(heads[s]) \in Nat
         /\ Row(heads[s]) # 0 => /\ heads[s] # NoPage /\ heads[s].active
                                 /\ Row(heads[s]) = heads[s].latest
BY Constants, HeadTypes DEF Row

LEMMA EntryRow ==
  ASSUME NEW entries \in Coverage, NEW s \in Source, entries[s] # NoEntry
  PROVE  /\ Row(entries[s].page) \in Stamp /\ Row(entries[s].page) \in Nat
         /\ Row(entries[s].page) # 0 =>
              /\ entries[s].page # NoPage /\ entries[s].page.active
              /\ Row(entries[s].page) = entries[s].page.latest
BY Constants, EntryTypes, PageTypes DEF Row

LEMMA Attempted ==
  ASSUME NEW entry \in Entry, NEW s \in Source, NEW outcome \in Outcome,
         Now \in Stamp, cycle \in CycleOrNone
  PROVE  LET e == Attempt(entry, s, outcome)
         IN  /\ e \in Entry /\ e # NoEntry
             /\ e.attempt = Now /\ e.seen = Id(cycle)
             /\ outcome = "failed" => e.page = entry.page /\ e.retired = entry.retired
             /\ outcome # "failed" => /\ e.page = PageAt(s, Now, outcome = "verified")
                                      /\ outcome = "verified" => e.retired = 0
<1>1. Id(cycle) \in Cycle \cup {NoCycle}
  BY CycleTypes
<1>2. PageAt(s, Now, outcome = "verified") \in Page
  BY NewPage
<1> DEFINE e == Attempt(entry, s, outcome)
<1>3. e \in Entry
  BY <1>1, <1>2, Constants DEF Attempt, Entry
<1>4. e # NoEntry
  BY <1>3, Constants
<1>5. /\ e.attempt = Now /\ e.seen = Id(cycle)
      /\ outcome = "failed" => e.page = entry.page /\ e.retired = entry.retired
      /\ outcome # "failed" => /\ e.page = PageAt(s, Now, outcome = "verified")
                               /\ outcome = "verified" => e.retired = 0
  BY DEF Attempt, Entry
<1> QED
  BY <1>3, <1>4, <1>5

LEMMA DiscoveredTypes ==
  ASSUME NEW entry \in Entry \cup {NoEntry}
  PROVE  /\ Discovered(entry) \in Entry /\ Discovered(entry) # NoEntry
         /\ entry = NoEntry => /\ Discovered(entry).page = NoPage /\ Discovered(entry).seen = NoCycle
                               /\ Discovered(entry).attempt = 0 /\ Discovered(entry).retired = 0
         /\ entry # NoEntry =>
              /\ Discovered(entry).page = entry.page /\ Discovered(entry).seen = entry.seen
              /\ Discovered(entry).attempt = entry.attempt
              /\ Discovered(entry).retired = entry.retired
<1>1. CASE entry = NoEntry
  BY <1>1, NewEntryTypes, Constants DEF Discovered
<1>2. CASE entry # NoEntry
  <2>1. Discovered(entry) = entry \/ Discovered(entry) = [entry EXCEPT !.reactive = TRUE]
    BY <1>2 DEF Discovered
  <2>2. Discovered(entry) \in Entry
    BY <1>2, <2>1 DEF Entry
  <2>3. /\ Discovered(entry).page = entry.page /\ Discovered(entry).seen = entry.seen
        /\ Discovered(entry).attempt = entry.attempt
        /\ Discovered(entry).retired = entry.retired
    BY <1>2, <2>1 DEF Entry
  <2> QED
    BY <1>2, <2>2, <2>3, Constants
<1> QED
  BY <1>1, <1>2

(* A job starts with the entries of the cache, of which a new cycle has    *)
(* seen nothing.                                                           *)
LEMMA StartEntries ==
  ASSUME TypeOK, NEW id \in Cycle \cup {NoCycle}, Start(id), NEW s \in Source
  PROVE  /\ coverage'[s] \in Entry \cup {NoEntry}
         /\ coverage'[s] = NoEntry => cache[s] = NoEntry /\ Recovered(s) = 0
         /\ coverage'[s] # NoEntry /\ cache[s] = NoEntry =>
              /\ coverage'[s].page = NoPage /\ coverage'[s].seen = NoCycle
              /\ coverage'[s].attempt = 0 /\ coverage'[s].retired = 0
         /\ cache[s] # NoEntry =>
              /\ coverage'[s] # NoEntry
              /\ coverage'[s].page = cache[s].page /\ coverage'[s].attempt = cache[s].attempt
              /\ coverage'[s].retired = cache[s].retired
              /\ coverage'[s].seen = IF Begins(id) THEN NoCycle ELSE cache[s].seen
<1>1. cache \in Coverage
  BY DEF TypeOK
<1>2. coverage'[s] = IF cache[s] = NoEntry /\ Recovered(s) # 0 THEN NewEntry ELSE Forgotten(cache[s], id)
  BY DEF Start
<1>3. CASE cache[s] = NoEntry
  BY <1>2, <1>3, NewEntryTypes, Constants DEF Forgotten
<1>4. CASE cache[s] # NoEntry
  <2>1. cache[s] \in Entry
    BY <1>1, <1>4, EntryTypes
  <2>2. coverage'[s] = IF Begins(id) THEN [cache[s] EXCEPT !.seen = NoCycle] ELSE cache[s]
    BY <1>2, <1>4 DEF Forgotten
  <2>3. coverage'[s] \in Entry
    BY <2>1, <2>2 DEF Entry
  <2>4. /\ coverage'[s].page = cache[s].page /\ coverage'[s].attempt = cache[s].attempt
        /\ coverage'[s].retired = cache[s].retired
        /\ coverage'[s].seen = IF Begins(id) THEN NoCycle ELSE cache[s].seen
    BY <2>1, <2>2 DEF Entry
  <2> QED
    BY <1>4, <2>3, <2>4, Constants
<1> QED
  BY <1>3, <1>4

LEMMA RecoveredTypes ==
  ASSUME TypeOK, NEW s \in Source
  PROVE  /\ Recovered(s) \in Stamp /\ Snapshot(s) \in Nat /\ Snapshot(s) \in Stamp
         /\ Unpublished(s) => cache[s] # NoEntry /\ cache[s].page \in Page
<1>1. cache \in Coverage /\ published \in Heads
  BY DEF TypeOK
<1>2. Snapshot(s) \in Stamp /\ Snapshot(s) \in Nat
  BY <1>1, RowTypes DEF Snapshot
<1>3. Recoverable(s) => cache[s] # NoEntry /\ cache[s].page # NoPage
  BY DEF Recoverable
<1>4. Recovered(s) \in Stamp
  BY <1>1, <1>2, <1>3, EntryRow DEF Recovered
<1>5. Unpublished(s) => cache[s] # NoEntry /\ cache[s].page \in Page
  BY <1>1, <1>3, EntryTypes DEF Unpublished
<1> QED
  BY <1>2, <1>4, <1>5
LEMMA ClearTypes ==
  ASSUME TypeOK, Clear
  PROVE  /\ file' \in Coverage /\ coverage' \in Coverage /\ cycle' = NoCycle
         /\ \A s \in Source : coverage'[s] = NoEntry /\ file'[s] = NoEntry /\ previous'[s] = 0
         /\ startedAt' = 0 /\ previous' \in [Source -> Stamp] /\ queue' = << >>
BY Constants DEF Clear, Coverage

LEMMA EmptyQueue ==
  << >> \in Seq(Source) /\ Len(<< >>) <= MaxDetails /\ Len(<< >>) = 0 /\ IsInjective(<< >>)
BY Constants DEF IsInjective

(* A job that ends forgets all it had.                                     *)
LEMMA ForgetTypes ==
  ASSUME TypeOK, Forget
  PROVE  /\ Clear /\ replay' = FALSE /\ pages' \in Heads /\ \A s \in Source : pages'[s] = NoPage
BY DEF Forget, Heads

LEMMA SavedTypes ==
  ASSUME TypeOK, NEW waited \in [Source -> Nat], SaveCache(waited)
  PROVE  /\ cache' \in Coverage /\ cachedCycle' \in CycleOrNone
         /\ waits' \in [Source -> Nat] /\ evictions' \in 0 .. MaxEvictions
         /\ \/ cache' = file /\ cachedCycle' = cycle
            \/ cache' = cache /\ cachedCycle' = cachedCycle
BY Constants DEF SaveCache, TypeOK

LEMMA FailTypes ==
  ASSUME TypeOK, NEW complete \in BOOLEAN, FailPublication(complete),
         replay => artifact # NoArtifact
  PROVE  /\ Forget /\ pc' = "idle" /\ artifact' \in Artifact \cup {NoArtifact}
         /\ \/ artifact' = artifact
            \/ ~replay /\ artifact' = [pages |-> pages, at |-> clock, imported |-> FALSE]
            \/ /\ replay /\ artifact' # NoArtifact
               /\ artifact'.pages = artifact.pages /\ artifact'.at = artifact.at
               /\ artifact'.imported => artifact.imported \/ complete
<1>1. CASE replay
  <2>1. artifact \in Artifact
    BY <1>1 DEF TypeOK
  <2>2. artifact' = [artifact EXCEPT !.imported = artifact.imported \/ complete]
    BY <1>1 DEF FailPublication, ImportsProof
  <2>3. (artifact.imported \/ complete) \in BOOLEAN
    BY <2>1 DEF Artifact
  <2>4. artifact' \in Artifact
    BY <2>1, <2>2, <2>3 DEF Artifact
  <2>5. /\ artifact'.pages = artifact.pages /\ artifact'.at = artifact.at
        /\ artifact'.imported <=> artifact.imported \/ complete
    BY <2>1, <2>2, <2>3 DEF Artifact
  <2> QED
    BY <1>1, <2>4, <2>5, Constants DEF FailPublication
<1>2. CASE ~replay
  <2>1. pages \in Heads /\ clock \in Stamp
    BY DEF TypeOK
  <2>2. [pages |-> pages, at |-> clock, imported |-> FALSE] \in Artifact
    BY <2>1 DEF Artifact
  <2> QED
    BY <1>2, <2>2 DEF FailPublication, TypeOK
<1> QED
  BY <1>1, <1>2

(* What is fetched is known, and no more than a run may fetch.             *)
LEMMA ScheduledTypes ==
  ASSUME TypeOK, Schedule
  PROVE  /\ coverage' \in Coverage
         /\ queue' \in Seq(Source) /\ Len(queue') <= MaxDetails /\ IsInjective(queue')
         /\ \A i \in 1 .. Len(queue') : coverage'[queue'[i]] # NoEntry
         /\ \A s \in Source : coverage'[s] = coverage[s] \/ coverage'[s] = Discovered(coverage[s])
<1>1. coverage \in Coverage
  BY DEF TypeOK
<1>2. PICK advertised \in SUBSET usage.sources :
        coverage' = [s \in Source |-> IF s \in advertised THEN Discovered(coverage[s]) ELSE coverage[s]]
  BY DEF Schedule
<1>3. \A s \in Source : coverage'[s] = coverage[s] \/ coverage'[s] = Discovered(coverage[s])
  BY <1>2
<1>4. coverage' \in Coverage
  BY <1>1, <1>2, DiscoveredTypes DEF Coverage
<1> DEFINE candidates == Candidates(coverage')
           n == Cardinality(candidates)
<1>5. PICK order \in SetToSeqs(candidates) : queue' = Started(order)
  BY DEF Schedule, FairOrders
<1>6. candidates \in SUBSET Source
  BY DEF Candidates
<1>7. \A s \in candidates : coverage'[s] # NoEntry
  BY DEF Candidates
<1> HIDE DEF candidates
<1>8. n \in Nat
  BY <1>6, Constants, FS_Subset, FS_CardinalityType
<1> HIDE DEF n
<1>9. /\ order \in [1 .. n -> candidates]
      /\ \A i, j \in 1 .. n : i # j => order[i] # order[j]
  BY <1>5 DEF SetToSeqs, n
<1>10. order \in Seq(candidates) /\ Len(order) = n
  BY <1>8, <1>9
<1> DEFINE m == IF n < MaxDetails THEN n ELSE MaxDetails
<1>11. m \in 0 .. n /\ m <= MaxDetails
  BY <1>8, Constants
<1>12. queue' = SubSeq(order, 1, m)
  BY <1>5, <1>10 DEF Started
<1> HIDE DEF m
<1>13. /\ queue' \in Seq(candidates) /\ Len(queue') = m
       /\ \A i \in 1 .. m : queue'[i] = order[i]
  <2>1. \A i \in 1 .. m : order[i] \in candidates
    BY <1>8, <1>9, <1>11
  <2>2. 1 <= m \/ m = 0
    BY <1>8, <1>11
  <2> QED
    BY <1>8, <1>11, <1>12, <2>1, <2>2, SubSeqProperties
<1>14. queue' \in Seq(Source)
  BY <1>6, <1>13
<1>15. IsInjective(queue')
  <2>1. DOMAIN queue' = 1 .. m
    BY <1>13
  <2> QED
    BY <1>8, <1>9, <1>11, <1>13, <2>1 DEF IsInjective
<1>16. \A i \in 1 .. Len(queue') : coverage'[queue'[i]] # NoEntry
  BY <1>7, <1>13
<1> QED
  BY <1>3, <1>4, <1>11, <1>13, <1>14, <1>15, <1>16

(* What a fetch does to the entry of its page, and to the others.          *)
LEMMA FetchedTypes ==
  ASSUME TypeOK, QueueInv, NEW outcome \in Outcome, Fetch(outcome)
  PROVE  /\ Head(queue) \in Source /\ coverage[Head(queue)] \in Entry
         /\ coverage[Head(queue)] # NoEntry
         /\ coverage' \in Coverage /\ pages' \in Heads
         /\ coverage'[Head(queue)] = Attempt(coverage[Head(queue)], Head(queue), outcome)
         /\ \A s \in Source : s # Head(queue) => coverage'[s] = coverage[s] /\ pages'[s] = pages[s]
         /\ pages'[Head(queue)] = IF outcome = "failed" THEN pages[Head(queue)]
                                  ELSE coverage'[Head(queue)].page
         /\ queue' \in Seq(Source) /\ Len(queue') <= MaxDetails /\ IsInjective(queue')
         /\ \A i \in 1 .. Len(queue') : queue'[i] = queue[i + 1] /\ i + 1 \in 1 .. Len(queue)
         /\ Now \in Stamp /\ Now \in Nat /\ Now = clock + 1 /\ clock \in Nat
<1> DEFINE s == Head(queue)
           e == Attempt(coverage[s], s, outcome)
<1>1. /\ coverage \in Coverage /\ pages \in Heads /\ queue \in Seq(Source) /\ queue # << >>
      /\ Len(queue) <= MaxDetails /\ IsInjective(queue) /\ cycle \in CycleOrNone
      /\ Now \in Stamp
  BY DEF TypeOK, Fetch
<1>2. s \in Source /\ s = queue[1] /\ 1 \in 1 .. Len(queue)
  BY <1>1, HeadTailProperties
<1>3. coverage[s] # NoEntry
  BY <1>2 DEF QueueInv
<1>4. coverage[s] \in Entry
  BY <1>1, <1>2, <1>3, EntryTypes
<1>5. e \in Entry /\ e # NoEntry /\ (outcome # "failed" => e.page = PageAt(s, Now, outcome = "verified"))
  BY <1>1, <1>2, <1>4, Attempted
<1>6. coverage' = [coverage EXCEPT ![s] = e]
  BY DEF Fetch
<1>7. coverage'[s] = e
  BY <1>1, <1>2, <1>6 DEF Coverage
<1>8. pages' = IF outcome = "failed" THEN pages ELSE [pages EXCEPT ![s] = coverage'[s].page]
  BY DEF Fetch
<1>9. queue' = Tail(queue)
  BY DEF Fetch
<1>10. outcome # "failed" => e.page \in Page
  BY <1>1, <1>2, <1>5, NewPage
<1> HIDE DEF s, e
<1>11. coverage' \in Coverage /\ \A t \in Source : t # s => coverage'[t] = coverage[t]
  BY <1>1, <1>2, <1>5, <1>6 DEF Coverage
<1>12. /\ pages' \in Heads /\ \A t \in Source : t # s => pages'[t] = pages[t]
       /\ pages'[s] = IF outcome = "failed" THEN pages[s] ELSE coverage'[s].page
  BY <1>1, <1>2, <1>7, <1>8, <1>10 DEF Heads
<1>13. /\ queue' \in Seq(Source) /\ Len(queue') = Len(queue) - 1
       /\ \A i \in 1 .. Len(queue') : queue'[i] = queue[i + 1]
  BY <1>1, <1>9, HeadTailProperties
<1>14. /\ Len(queue') <= MaxDetails /\ \A i \in 1 .. Len(queue') : i + 1 \in 1 .. Len(queue)
       /\ DOMAIN queue' = 1 .. Len(queue') /\ DOMAIN queue = 1 .. Len(queue)
  BY <1>1, <1>13, Constants
<1>15. IsInjective(queue')
  <2> SUFFICES ASSUME NEW i \in 1 .. Len(queue'), NEW j \in 1 .. Len(queue'), queue'[i] = queue'[j]
               PROVE  i = j
    BY <1>14 DEF IsInjective
  <2>1. queue[i + 1] = queue[j + 1] /\ i + 1 \in DOMAIN queue /\ j + 1 \in DOMAIN queue
    BY <1>13, <1>14
  <2>2. i + 1 = j + 1
    BY <1>1, <2>1 DEF IsInjective
  <2> QED
    BY <2>2
<1>16. Now \in Nat /\ Now = clock + 1 /\ clock \in Nat
  BY <1>1, Constants DEF Now, TypeOK
<1> QED
  BY <1>1, <1>2, <1>3, <1>4, <1>7, <1>11, <1>12, <1>13, <1>14, <1>15, <1>16 DEF s, e

LEMMA UsedCycles ==
  ASSUME TypeOK
  PROVE  \A id \in usage.cycles \cup {NoCycle} : id \in Cycle \cup {NoCycle}
BY CollectorAssumption DEF TypeOK

LEMMA TypesStart ==
  ASSUME TypeOK, QueueInv, NEW id \in Cycle \cup {NoCycle}, Start(id)
  PROVE  TypeOK' /\ QueueInv'
<1>1. cycle' \in CycleOrNone
  <2>1. [id |-> id, begun |-> clock] \in CycleOrNone \/ id = NoCycle
    BY DEF CycleOrNone, TypeOK
  <2> QED
    BY <2>1 DEF Start, Begun, Begins, TypeOK
<1>2. coverage' \in Coverage
  <2>1. coverage' = [s \in Source |-> coverage'[s]]
    BY DEF Start
  <2>2. \A s \in Source : coverage'[s] \in Entry \cup {NoEntry}
    BY StartEntries
  <2> QED
    BY <2>1, <2>2 DEF Coverage
<1>3. previous' \in [Source -> Stamp]
  BY RecoveredTypes DEF Start
<1>4. pages' \in Heads
  BY RecoveredTypes DEF Start, Heads
<1>5. waits' \in [Source -> Nat]
  BY DEF Start, TypeOK
<1>6. queue' = << >> /\ queue = << >>
  BY DEF Start, QueueInv
<1>7. TypeOK'
  BY <1>1, <1>2, <1>3, <1>4, <1>5, <1>6 DEF Start, TypeOK, serverVars
<1>8. QueueInv'
  BY <1>6, EmptyQueue DEF QueueInv
<1> QED
  BY <1>7, <1>8

(* A step that ends a job.                                                 *)
LEMMA TypesForget ==
  ASSUME TypeOK, Forget, pc' \in {"idle", "publish"},
         UNCHANGED usage, clock' \in Stamp, published' \in Heads, reported' \in Stamp,
         sources' \in Heads, artifact' \in Artifact \cup {NoArtifact}, toSend' \subseteq Source,
         cache' \in Coverage, cachedCycle' \in CycleOrNone,
         waits' \in [Source -> Nat], evictions' \in 0 .. MaxEvictions
  PROVE  TypeOK' /\ QueueInv'
<1>1. /\ file' \in Coverage /\ coverage' \in Coverage /\ cycle' = NoCycle /\ startedAt' = 0
      /\ previous' \in [Source -> Stamp] /\ queue' = << >> /\ pages' \in Heads /\ replay' = FALSE
  BY ForgetTypes, ClearTypes
<1>2. TypeOK'
  BY <1>1, EmptyQueue, Constants DEF TypeOK, CycleOrNone
<1>3. QueueInv'
  BY <1>1, EmptyQueue DEF QueueInv
<1> QED
  BY <1>2, <1>3

LEMMA TypesFinish ==
  ASSUME TypeOK, QueueInv, FinishRun
  PROVE  TypeOK' /\ QueueInv'
<1> DEFINE waited == [s \in Source |-> Waited(s, pc = "crawl")]
<1>1. waited \in [Source -> Nat]
  BY DEF Waited, TypeOK
<1>2. SaveCache(waited)
  BY DEF FinishRun
<1> HIDE DEF waited
<1>3. /\ cache' \in Coverage /\ cachedCycle' \in CycleOrNone
      /\ waits' \in [Source -> Nat] /\ evictions' \in 0 .. MaxEvictions
  BY <1>1, <1>2, SavedTypes
<1>4. toSend' \subseteq Source
  BY DEF FinishRun
<1>5. pc' \in {"idle", "publish"} /\ queue = << >>
  BY DEF FinishRun
<1>6. CASE Forget
  BY <1>3, <1>4, <1>5, <1>6, TypesForget DEF FinishRun, TypeOK, serverVars
<1>7. CASE UNCHANGED jobVars
  <2>1. TypeOK'
    BY <1>3, <1>4, <1>5, <1>7 DEF FinishRun, TypeOK, serverVars, jobVars
  <2>2. QueueInv'
    BY <1>5, <1>7, EmptyQueue DEF jobVars, QueueInv
  <2> QED
    BY <2>1, <2>2
<1> QED
  BY <1>6, <1>7 DEF FinishRun

LEMMA TypesSend ==
  ASSUME TypeOK, QueueInv, ReplayInv, NEW s \in Source, SendPage(s)
  PROVE  TypeOK' /\ QueueInv'
<1> DEFINE staged == IF Stages(sources[s], pages[s]) THEN [sources EXCEPT ![s] = pages[s]] ELSE sources
<1>1. staged \in Heads
  BY DEF TypeOK, Heads
<1>2. \/ sources' = staged /\ toSend' = toSend \ {s} /\ UNCHANGED <<pc, jobVars, artifact>>
      \/ sources' \in {staged, sources} /\ toSend' = {} /\ FailPublication(FALSE)
  BY DEF SendPage
<1>3. UNCHANGED <<usage, clock, published, reported, cacheVars>> /\ pc = "publish"
  BY DEF SendPage
<1> HIDE DEF staged
<1>4. CASE UNCHANGED <<pc, jobVars, artifact>> /\ sources' = staged /\ toSend' = toSend \ {s}
  <2>1. TypeOK'
    BY <1>1, <1>3, <1>4 DEF TypeOK, jobVars, cacheVars
  <2>2. QueueInv'
    BY <1>4 DEF jobVars, QueueInv
  <2> QED
    BY <2>1, <2>2
<1>5. CASE sources' \in {staged, sources} /\ toSend' = {} /\ FailPublication(FALSE)
  <2>1. Forget /\ pc' = "idle" /\ artifact' \in Artifact \cup {NoArtifact}
    BY <1>3, <1>5, FailTypes DEF ReplayInv
  <2> QED
    BY <1>1, <1>3, <1>5, <2>1, TypesForget DEF TypeOK, cacheVars
<1> QED
  BY <1>2, <1>4, <1>5

LEMMA FinishedAtType ==
  ASSUME TypeOK, ReplayInv, pc = "publish"
  PROVE  FinishedAt \in Stamp
<1>1. replay => artifact \in Artifact
  BY DEF TypeOK, ReplayInv
<1> QED
  BY <1>1 DEF FinishedAt, TypeOK, Artifact

LEMMA TypesCheckpoint ==
  ASSUME TypeOK, QueueInv, ReplayInv, SaveCheckpoint
  PROVE  TypeOK' /\ QueueInv'
<1>1. /\ pc = "publish" /\ toSend = {}
      /\ UNCHANGED <<usage, clock, sources, cacheVars, toSend>>
      /\ \/ published' = sources /\ reported' = FinishedAt
         \/ UNCHANGED <<published, reported>>
      /\ \/ pc' = "published" /\ UNCHANGED <<jobVars, artifact>>
         \/ FailPublication(TRUE)
  BY DEF SaveCheckpoint
<1>2. published' \in Heads /\ reported' \in Stamp
  BY <1>1, FinishedAtType DEF TypeOK
<1>3. CASE pc' = "published" /\ UNCHANGED <<jobVars, artifact>>
  <2>1. TypeOK'
    BY <1>1, <1>2, <1>3 DEF TypeOK, jobVars, cacheVars
  <2>2. QueueInv'
    BY <1>1, <1>3 DEF jobVars, QueueInv
  <2> QED
    BY <2>1, <2>2
<1>4. CASE FailPublication(TRUE)
  <2>1. Forget /\ pc' = "idle" /\ artifact' \in Artifact \cup {NoArtifact}
    BY <1>1, <1>4, FailTypes DEF ReplayInv
  <2> QED
    BY <1>1, <1>2, <2>1, TypesForget DEF TypeOK, cacheVars
<1> QED
  BY <1>1, <1>3, <1>4

LEMMA TypesReplay ==
  ASSUME TypeOK, QueueInv, NEW checkpointOnly \in BOOLEAN, StartReplay(checkpointOnly)
  PROVE  TypeOK' /\ QueueInv'
<1>1. artifact \in Artifact
  BY DEF StartReplay, TypeOK
<1>2. pages' \in Heads
  BY <1>1 DEF StartReplay, Artifact
<1>3. toSend' \subseteq Source
  BY DEF StartReplay
<1>4. /\ file' \in Coverage /\ coverage' \in Coverage /\ cycle' = NoCycle /\ startedAt' = 0
      /\ previous' \in [Source -> Stamp] /\ queue' = << >>
  BY ClearTypes DEF StartReplay
<1>5. TypeOK'
  BY <1>2, <1>3, <1>4, EmptyQueue, Constants DEF StartReplay, TypeOK, serverVars, cacheVars, CycleOrNone
<1>6. QueueInv'
  BY <1>4, EmptyQueue DEF QueueInv
<1> QED
  BY <1>5, <1>6

LEMMA TypesCrash ==
  ASSUME TypeOK, CrashRun
  PROVE  TypeOK' /\ QueueInv'
<1> DEFINE waited == [s \in Source |-> IF file[s] # NoEntry /\ file[s].attempt > startedAt THEN 0
                                      ELSE waits[s]]
<1>1. waited \in [Source -> Nat] /\ SaveCache(waited)
  BY DEF CrashRun, TypeOK
<1> HIDE DEF waited
<1>2. /\ cache' \in Coverage /\ cachedCycle' \in CycleOrNone
      /\ waits' \in [Source -> Nat] /\ evictions' \in 0 .. MaxEvictions
  BY <1>1, SavedTypes
<1> QED
  BY <1>2, TypesForget DEF CrashRun, TypeOK, serverVars

LEMMA TypesEvict ==
  ASSUME TypeOK, QueueInv, EvictCache
  PROVE  TypeOK' /\ QueueInv'
<1>1. /\ cache' \in Coverage /\ cachedCycle' \in CycleOrNone
      /\ waits' \in [Source -> Nat] /\ evictions' \in 0 .. MaxEvictions
  BY Constants DEF EvictCache, TypeOK, Coverage, CycleOrNone
<1>2. UNCHANGED <<usage, clock, serverVars, jobVars, pc, toSend, artifact>>
  BY DEF EvictCache
<1> QED
  BY <1>1, <1>2 DEF TypeOK, QueueInv, serverVars, jobVars

LEMMA TypesKept ==
  ASSUME TypeOK, QueueInv, ReplayInv, [Next]_vars
  PROVE  TypeOK' /\ QueueInv'
<1>1. ASSUME NEW id \in usage.cycles \cup {NoCycle}, Start(id) PROVE TypeOK' /\ QueueInv'
  BY <1>1, UsedCycles, TypesStart
<1>2. ASSUME NEW checkpointOnly \in BOOLEAN, StartReplay(checkpointOnly) PROVE TypeOK' /\ QueueInv'
  BY <1>2, TypesReplay
<1>3. CASE Schedule
  <2>1. TypeOK'
    BY <1>3, ScheduledTypes DEF Schedule, TypeOK, serverVars, cacheVars
  <2>2. QueueInv'
    BY <1>3, ScheduledTypes DEF Schedule, QueueInv
  <2> QED
    BY <2>1, <2>2
<1>4. CASE SaveCoverage
  <2>1. TypeOK'
    BY <1>4 DEF SaveCoverage, TypeOK, serverVars, cacheVars
  <2>2. QueueInv'
    BY <1>4 DEF SaveCoverage, QueueInv
  <2> QED
    BY <2>1, <2>2
<1>5. CASE StopCrawl
  <2>1. TypeOK'
    BY <1>5, EmptyQueue DEF StopCrawl, TypeOK, serverVars, cacheVars
  <2>2. QueueInv'
    BY <1>5, EmptyQueue DEF StopCrawl, QueueInv
  <2> QED
    BY <2>1, <2>2
<1>6. CASE FinishRun
  BY <1>6, TypesFinish
<1>7. CASE SaveCheckpoint
  BY <1>7, TypesCheckpoint
<1>8. ASSUME NEW outcome \in Outcome, Fetch(outcome) PROVE TypeOK' /\ QueueInv'
  <2>1. /\ coverage' \in Coverage /\ pages' \in Heads
        /\ queue' \in Seq(Source) /\ Len(queue') <= MaxDetails /\ IsInjective(queue')
        /\ Now \in Stamp
    BY <1>8, FetchedTypes
  <2>2. TypeOK'
    BY <1>8, <2>1 DEF Fetch, TypeOK, serverVars, cacheVars
  <2>3. QueueInv'
    <3>1. coverage'[Head(queue)] # NoEntry
      <4>1. cycle \in CycleOrNone
        BY DEF TypeOK
      <4> QED
        BY <1>8, <4>1, FetchedTypes, Attempted
    <3>2. \A i \in 1 .. Len(queue') : coverage'[queue'[i]] # NoEntry
      <4> TAKE i \in 1 .. Len(queue')
      <4>1. queue'[i] = queue[i + 1] /\ i + 1 \in 1 .. Len(queue) /\ queue'[i] \in Source
        BY <1>8, <2>1, FetchedTypes
      <4>2. coverage[queue'[i]] # NoEntry
        BY <4>1 DEF QueueInv
      <4>3. CASE queue'[i] = Head(queue)
        BY <3>1, <4>3
      <4>4. CASE queue'[i] # Head(queue)
        BY <1>8, <4>1, <4>2, <4>4, FetchedTypes
      <4> QED
        BY <4>3, <4>4
    <3>3. pc = "crawl" /\ UNCHANGED pc
      BY <1>8 DEF Fetch
    <3> QED
      BY <3>2, <3>3 DEF QueueInv
  <2> QED
    BY <2>2, <2>3
<1>9. ASSUME NEW s \in Source, SendPage(s) PROVE TypeOK' /\ QueueInv'
  BY <1>9, TypesSend
<1>10. CASE CrashRun
  BY <1>10, TypesCrash
<1>11. CASE LoseRunner
  BY <1>11, TypesForget DEF LoseRunner, TypeOK, serverVars, cacheVars
<1>12. CASE EvictCache
  BY <1>12, TypesEvict
<1>13. CASE Pause
  BY <1>13, TypesForget DEF Pause, TypeOK, serverVars, cacheVars
<1>14. CASE UNCHANGED vars
  BY <1>14 DEF vars, serverVars, cacheVars, jobVars, TypeOK, QueueInv
<1> QED
  BY <1>1, <1>2, <1>3, <1>4, <1>5, <1>6, <1>7, <1>8, <1>9, <1>10, <1>11, <1>12, <1>13, <1>14 DEF Next

-----------------------------------------------------------------------------
(* The pages of a job, and what a cycle has seen *)

LEMMA ClockTypes == TypeOK => clock \in Nat /\ reported \in Nat /\ startedAt \in Nat
BY Constants DEF TypeOK

LEMMA OwnPagesLater ==
  ASSUME NEW heads \in Heads, NEW t \in Nat, NEW u \in Nat, t <= u, OwnPages(heads, t)
  PROVE  OwnPages(heads, u)
<1> SUFFICES ASSUME NEW s \in Source, heads[s] # NoPage PROVE Own(heads[s], u)
  BY DEF OwnPages
<1>1. heads[s].latest \in Nat /\ heads[s].oldest \in Nat
  BY HeadTypes
<1> QED
  BY <1>1 DEF OwnPages, Own

LEMMA OwnEntriesLater ==
  ASSUME NEW entries \in Coverage, NEW t \in Nat, NEW u \in Nat, t <= u, OwnEntries(entries, t)
  PROVE  OwnEntries(entries, u)
<1> SUFFICES ASSUME NEW s \in Source, entries[s] # NoEntry, entries[s].page # NoPage
             PROVE  Own(entries[s].page, u) /\ (entries[s].page.active => entries[s].retired = 0)
  BY DEF OwnEntries
<1>1. entries[s].page.latest \in Nat /\ entries[s].page.oldest \in Nat
  BY EntryTypes, PageTypes
<1> QED
  BY <1>1 DEF OwnEntries, Own

(* With time, and with what forgets or copies, all pages stay own.         *)
LEMMA OwnForget ==
  ASSUME TypeOK, OwnInv, Forget, clock' \in Nat, clock <= clock',
         \/ UNCHANGED artifact
         \/ artifact' # NoArtifact /\ artifact'.pages = pages /\ artifact'.at = clock
         \/ /\ artifact # NoArtifact /\ artifact' # NoArtifact
            /\ artifact'.pages = artifact.pages /\ artifact'.at = artifact.at,
         \/ UNCHANGED cache
         \/ cache' = file
         \/ \A s \in Source : cache'[s] = NoEntry
  PROVE  OwnInv'
<1>1. /\ \A s \in Source : pages'[s] = NoPage /\ coverage'[s] = NoEntry /\ file'[s] = NoEntry
      /\ startedAt' = 0 /\ clock \in Nat
  BY ForgetTypes, ClearTypes, ClockTypes
<1>2. OwnPages(pages', clock') /\ OwnEntries(coverage', clock') /\ OwnEntries(file', clock')
  BY <1>1 DEF OwnPages, OwnEntries
<1>3. OwnEntries(cache', clock')
  <2>1. OwnEntries(file, clock') /\ OwnEntries(cache, clock')
    BY <1>1, OwnEntriesLater DEF OwnInv, TypeOK
  <2> QED
    BY <2>1 DEF OwnEntries
<1>4. artifact' # NoArtifact => OwnPages(artifact'.pages, clock') /\ artifact'.at <= clock'
  <2>1. OwnPages(pages, clock')
    BY <1>1, OwnPagesLater DEF OwnInv, TypeOK
  <2>2. artifact # NoArtifact => /\ artifact.pages \in Heads /\ artifact.at \in Nat
                                 /\ OwnPages(artifact.pages, clock) /\ artifact.at <= clock
    BY Constants DEF TypeOK, OwnInv, Artifact
  <2>3. artifact # NoArtifact => OwnPages(artifact.pages, clock') /\ artifact.at <= clock'
    BY <1>1, <2>2, OwnPagesLater
  <2> QED
    BY <1>1, <2>1, <2>3
<1> QED
  BY <1>1, <1>2, <1>3, <1>4 DEF OwnInv

LEMMA OwnStart ==
  ASSUME TypeOK, OwnInv, NEW id \in Cycle \cup {NoCycle}, Start(id)
  PROVE  OwnInv'
<1>1. OwnEntries(coverage', clock)
  <2> SUFFICES ASSUME NEW s \in Source, coverage'[s] # NoEntry, coverage'[s].page # NoPage
               PROVE  /\ Own(coverage'[s].page, clock)
                      /\ coverage'[s].page.active => coverage'[s].retired = 0
    BY DEF OwnEntries
  <2>1. /\ cache[s] # NoEntry /\ coverage'[s].page = cache[s].page
        /\ coverage'[s].retired = cache[s].retired
    BY StartEntries
  <2> QED
    BY <2>1 DEF OwnInv, OwnEntries
<1>2. OwnPages(pages', clock)
  <2> SUFFICES ASSUME NEW s \in Source, pages'[s] # NoPage PROVE Own(pages'[s], clock)
    BY DEF OwnPages
  <2>1. Unpublished(s) /\ pages'[s] = cache[s].page
    BY DEF Start
  <2>2. cache[s] # NoEntry
    BY <2>1, RecoveredTypes
  <2> QED
    BY <2>1, <2>2 DEF OwnInv, OwnEntries
<1>3. UNCHANGED <<clock, cache, artifact>> /\ file' = coverage' /\ startedAt' = clock
  BY DEF Start
<1> QED
  BY <1>1, <1>2, <1>3, ClockTypes DEF OwnInv

LEMMA OwnFetch ==
  ASSUME TypeOK, QueueInv, OwnInv, NEW outcome \in Outcome, Fetch(outcome)
  PROVE  OwnInv'
<1>1. /\ Now \in Stamp /\ Now \in Nat /\ Now = clock + 1 /\ clock' = Now /\ clock \in Nat
      /\ clock <= Now /\ cycle \in CycleOrNone
  <2>1. Now \in Stamp /\ Now \in Nat /\ Now = clock + 1 /\ clock \in Nat
    BY FetchedTypes
  <2>2. clock' = Now /\ cycle \in CycleOrNone
    BY DEF Fetch, TypeOK
  <2> QED
    BY <2>1, <2>2
<1>2. /\ OwnPages(pages, Now) /\ OwnEntries(coverage, Now)
      /\ OwnEntries(file, Now) /\ OwnEntries(cache, Now)
  BY <1>1, OwnPagesLater, OwnEntriesLater DEF OwnInv, TypeOK
<1>3. artifact # NoArtifact => OwnPages(artifact.pages, Now) /\ artifact.at <= Now
  <2>1. artifact # NoArtifact => artifact.pages \in Heads /\ artifact.at \in Nat
    BY Constants DEF TypeOK, Artifact
  <2> QED
    BY <1>1, <2>1, OwnPagesLater DEF OwnInv
<1> DEFINE s == Head(queue)
           e == coverage'[s]
<1>4. /\ s \in Source /\ coverage[s] \in Entry /\ coverage[s] # NoEntry
      /\ e = Attempt(coverage[s], s, outcome)
      /\ \A t \in Source : t # s => coverage'[t] = coverage[t] /\ pages'[t] = pages[t]
      /\ pages'[s] = IF outcome = "failed" THEN pages[s] ELSE e.page
  BY FetchedTypes
<1> HIDE DEF s, e
<1>5. /\ outcome = "failed" => e.page = coverage[s].page /\ e.retired = coverage[s].retired
      /\ outcome # "failed" => /\ e.page = PageAt(s, Now, outcome = "verified")
                               /\ outcome = "verified" => e.retired = 0
  BY <1>1, <1>4, Attempted
<1>6. outcome # "failed" => Own(e.page, Now) /\ (e.page.active => e.retired = 0)
  <2> DEFINE verified == outcome = "verified"
  <2>1. verified \in BOOLEAN
    OBVIOUS
  <2>2. outcome # "failed" => e.page = PageAt(s, Now, verified) /\ (verified => e.retired = 0)
    BY <1>5
  <2> HIDE DEF verified
  <2>3. /\ PageAt(s, Now, verified).oldest = Now /\ PageAt(s, Now, verified).latest = Now
        /\ PageAt(s, Now, verified).active = verified
    BY <1>1, <1>4, <2>1, NewPage
  <2> QED
    BY <1>1, <2>2, <2>3 DEF Own
<1>7. e.page # NoPage => Own(e.page, Now) /\ (e.page.active => e.retired = 0)
  BY <1>2, <1>4, <1>5, <1>6 DEF OwnEntries
<1>8. OwnEntries(coverage', Now)
  <2> SUFFICES ASSUME NEW t \in Source, coverage'[t] # NoEntry, coverage'[t].page # NoPage
               PROVE  /\ Own(coverage'[t].page, Now)
                      /\ coverage'[t].page.active => coverage'[t].retired = 0
    BY DEF OwnEntries
  <2>1. CASE t = s
    BY <1>7, <2>1 DEF e
  <2>2. CASE t # s
    BY <1>2, <1>4, <2>2 DEF OwnEntries
  <2> QED
    BY <2>1, <2>2
<1>9. OwnPages(pages', Now)
  <2> SUFFICES ASSUME NEW t \in Source, pages'[t] # NoPage PROVE Own(pages'[t], Now)
    BY DEF OwnPages
  <2>1. CASE t = s
    BY <1>2, <1>4, <1>6, <2>1 DEF OwnPages
  <2>2. CASE t # s
    BY <1>2, <1>4, <2>2 DEF OwnPages
  <2> QED
    BY <2>1, <2>2
<1>10. UNCHANGED <<file, cache, artifact, startedAt>>
  BY DEF Fetch, cacheVars
<1>11. startedAt <= Now
  BY <1>1, ClockTypes DEF OwnInv
<1> QED
  BY <1>1, <1>2, <1>3, <1>8, <1>9, <1>10, <1>11 DEF OwnInv

LEMMA OwnSchedule ==
  ASSUME TypeOK, OwnInv, Schedule
  PROVE  OwnInv'
<1>1. OwnEntries(coverage', clock)
  <2> SUFFICES ASSUME NEW s \in Source, coverage'[s] # NoEntry, coverage'[s].page # NoPage
               PROVE  /\ Own(coverage'[s].page, clock)
                      /\ coverage'[s].page.active => coverage'[s].retired = 0
    BY DEF OwnEntries
  <2>1. coverage[s] \in Entry \cup {NoEntry}
    BY DEF TypeOK, Coverage
  <2>2. /\ coverage[s] # NoEntry /\ coverage'[s].page = coverage[s].page
        /\ coverage'[s].retired = coverage[s].retired
    BY <2>1, ScheduledTypes, DiscoveredTypes
  <2> QED
    BY <2>2 DEF OwnInv, OwnEntries
<1>2. UNCHANGED <<clock, pages, file, cache, artifact, startedAt>>
  BY DEF Schedule, cacheVars
<1> QED
  BY <1>1, <1>2 DEF OwnInv

LEMMA OwnFail ==
  ASSUME TypeOK, ReplayInv, OwnInv, pc = "publish", NEW complete \in BOOLEAN,
         FailPublication(complete), UNCHANGED <<clock, cache>>
  PROVE  OwnInv'
<1>1. replay => artifact # NoArtifact
  BY DEF ReplayInv
<1>2. /\ Forget
      /\ \/ artifact' = artifact
         \/ artifact' = [pages |-> pages, at |-> clock, imported |-> FALSE]
         \/ /\ replay /\ artifact' # NoArtifact
            /\ artifact'.pages = artifact.pages /\ artifact'.at = artifact.at
  BY <1>1, FailTypes
<1>3. CASE artifact' = [pages |-> pages, at |-> clock, imported |-> FALSE]
  <2>1. artifact' \in Artifact
    BY <1>3 DEF TypeOK, Artifact
  <2>2. artifact' # NoArtifact /\ artifact'.pages = pages /\ artifact'.at = clock
    BY <1>3, <2>1, Constants
  <2> QED
    BY <1>2, <2>2, OwnForget, ClockTypes
<1>4. CASE artifact' = artifact
  BY <1>2, <1>4, OwnForget, ClockTypes
<1>5. CASE /\ replay /\ artifact' # NoArtifact
           /\ artifact'.pages = artifact.pages /\ artifact'.at = artifact.at
  BY <1>1, <1>2, <1>5, OwnForget, ClockTypes
<1> QED
  BY <1>2, <1>3, <1>4, <1>5

LEMMA Saved ==
  ASSUME TypeOK, NEW waited, SaveCache(waited)
  PROVE  \/ cache' = file /\ cachedCycle' = cycle
         \/ UNCHANGED <<cache, cachedCycle>>
BY DEF SaveCache

LEMMA OwnKept ==
  ASSUME TypeOK, QueueInv, ReplayInv, OwnInv, [Next]_vars
  PROVE  OwnInv'
<1>1. ASSUME NEW id \in usage.cycles \cup {NoCycle}, Start(id) PROVE OwnInv'
  BY <1>1, UsedCycles, OwnStart
<1>2. ASSUME NEW checkpointOnly \in BOOLEAN, StartReplay(checkpointOnly) PROVE OwnInv'
  <2>1. /\ \A s \in Source : coverage'[s] = NoEntry /\ file'[s] = NoEntry
        /\ startedAt' = 0 /\ clock \in Nat
    BY <1>2, ClearTypes, ClockTypes DEF StartReplay
  <2>2. OwnEntries(coverage', clock) /\ OwnEntries(file', clock)
    BY <2>1 DEF OwnEntries
  <2>3. pages' = artifact.pages /\ artifact # NoArtifact /\ UNCHANGED <<clock, cache, artifact>>
    BY <1>2 DEF StartReplay, cacheVars
  <2> QED
    BY <2>1, <2>2, <2>3 DEF OwnInv
<1>3. CASE Schedule
  BY <1>3, OwnSchedule
<1>4. CASE SaveCoverage
  BY <1>4 DEF SaveCoverage, OwnInv, cacheVars
<1>5. CASE StopCrawl
  BY <1>5 DEF StopCrawl, OwnInv, cacheVars
<1>6. CASE FinishRun
  <2>1. /\ cache' = file \/ UNCHANGED cache
        /\ UNCHANGED <<clock, artifact>>
        /\ Forget \/ UNCHANGED jobVars
    BY <1>6, Saved DEF FinishRun
  <2>2. CASE Forget
    BY <2>1, <2>2, OwnForget, ClockTypes
  <2>3. CASE UNCHANGED jobVars
    BY <2>1, <2>3 DEF OwnInv, jobVars
  <2> QED
    BY <2>1, <2>2, <2>3
<1>7. CASE SaveCheckpoint
  <2>1. /\ pc = "publish" /\ UNCHANGED <<clock, cache>>
        /\ UNCHANGED <<jobVars, artifact>> \/ FailPublication(TRUE)
    BY <1>7 DEF SaveCheckpoint, cacheVars
  <2>2. CASE UNCHANGED <<jobVars, artifact>>
    BY <2>1, <2>2 DEF OwnInv, jobVars
  <2> QED
    BY <2>1, <2>2, OwnFail
<1>8. ASSUME NEW outcome \in Outcome, Fetch(outcome) PROVE OwnInv'
  BY <1>8, OwnFetch
<1>9. ASSUME NEW s \in Source, SendPage(s) PROVE OwnInv'
  <2>1. /\ pc = "publish" /\ UNCHANGED <<clock, cache>>
        /\ UNCHANGED <<jobVars, artifact>> \/ FailPublication(FALSE)
    BY <1>9 DEF SendPage, cacheVars
  <2>2. CASE UNCHANGED <<jobVars, artifact>>
    BY <2>1, <2>2 DEF OwnInv, jobVars
  <2> QED
    BY <2>1, <2>2, OwnFail
<1>10. CASE CrashRun
  <2>1. /\ cache' = file \/ UNCHANGED cache
        /\ UNCHANGED <<clock, artifact>> /\ Forget
    BY <1>10, Saved DEF CrashRun
  <2> QED
    BY <2>1, OwnForget, ClockTypes
<1>11. CASE LoseRunner
  BY <1>11, OwnForget, ClockTypes DEF LoseRunner, cacheVars
<1>12. CASE EvictCache
  <2>1. OwnEntries(cache', clock)
    BY <1>12 DEF EvictCache, OwnEntries
  <2> QED
    BY <1>12, <2>1 DEF EvictCache, OwnInv, jobVars
<1>13. CASE Pause
  <2>1. clock' \in Nat /\ clock <= clock' /\ Forget /\ UNCHANGED <<artifact, cache>>
    BY <1>13, ClockTypes, Constants DEF Pause, Now, cacheVars
  <2> QED
    BY <2>1, OwnForget
<1>14. CASE UNCHANGED vars
  BY <1>14 DEF vars, serverVars, cacheVars, jobVars, OwnInv
<1> QED
  BY <1>1, <1>2, <1>3, <1>4, <1>5, <1>6, <1>7, <1>8, <1>9, <1>10, <1>11, <1>12, <1>13, <1>14 DEF Next

LEMMA CycleBegun ==
  ASSUME TypeOK
  PROVE  /\ cycle # NoCycle => cycle.begun \in Nat /\ cycle.id # NoCycle /\ Id(cycle) = cycle.id
         /\ cachedCycle # NoCycle => cachedCycle.begun \in Nat /\ cachedCycle.id # NoCycle
                                     /\ Id(cachedCycle) = cachedCycle.id
         /\ Id(cycle) \in Cycle \cup {NoCycle}
BY CycleTypes DEF TypeOK

LEMMA CycleForget ==
  ASSUME TypeOK, CycleInv, Clear, clock' \in Nat, clock <= clock',
         \/ UNCHANGED <<cache, cachedCycle>>
         \/ cache' = file /\ cachedCycle' = cycle
  PROVE  CycleInv'
<1>1. cycle' = NoCycle /\ clock \in Nat
  BY ClearTypes, ClockTypes
<1>2. SeenAfter(coverage', cycle') /\ SeenAfter(file', cycle')
  BY <1>1 DEF SeenAfter
<1>3. SeenAfter(cache', cachedCycle') /\ (cachedCycle' # NoCycle => cachedCycle'.begun <= clock)
  BY DEF CycleInv
<1>4. cachedCycle' # NoCycle => cachedCycle'.begun \in Nat
  BY CycleBegun
<1>5. cachedCycle' # NoCycle => cachedCycle'.begun <= clock'
  BY <1>1, <1>3, <1>4
<1> QED
  BY <1>1, <1>2, <1>3, <1>5 DEF CycleInv

(* A resumed cycle knows what the cache knows; a new one has seen nothing. *)
LEMMA CycleStart ==
  ASSUME TypeOK, CycleInv, NEW id \in Cycle \cup {NoCycle}, Start(id)
  PROVE  CycleInv'
<1>1. cycle' = Begun(id) /\ file' = coverage' /\ UNCHANGED <<clock, cache, cachedCycle>> /\ clock \in Nat
  BY ClockTypes DEF Start
<1>2. CASE Begins(id)
  <2>1. cycle' = [id |-> id, begun |-> clock] /\ id # NoCycle
    BY <1>1, <1>2 DEF Begun, Begins
  <2>2. \A s \in Source : coverage'[s] # NoEntry => coverage'[s].seen = NoCycle
    BY <1>2, StartEntries
  <2>3. SeenAfter(coverage', cycle') /\ cycle'.begun <= clock
    BY <1>1, <2>1, <2>2 DEF SeenAfter
  <2> QED
    BY <1>1, <2>3 DEF CycleInv
<1>3. CASE ~Begins(id)
  <2>1. cycle' = cachedCycle
    BY <1>1, <1>3 DEF Begun
  <2>2. SeenAfter(coverage', cachedCycle)
    <3> SUFFICES ASSUME cachedCycle # NoCycle, NEW s \in Source,
                        coverage'[s] # NoEntry, coverage'[s].seen = cachedCycle.id
                 PROVE  coverage'[s].attempt > cachedCycle.begun
      BY DEF SeenAfter
    <3>1. cachedCycle.id # NoCycle
      BY CycleBegun
    <3>2. /\ cache[s] # NoEntry /\ cache[s].seen = cachedCycle.id
          /\ coverage'[s].attempt = cache[s].attempt
      BY <1>3, <3>1, StartEntries
    <3> QED
      BY <3>2 DEF CycleInv, SeenAfter
  <2> QED
    BY <1>1, <2>1, <2>2 DEF CycleInv
<1> QED
  BY <1>2, <1>3

LEMMA CycleSchedule ==
  ASSUME TypeOK, CycleInv, Schedule
  PROVE  CycleInv'
<1>1. SeenAfter(coverage', cycle)
  <2> SUFFICES ASSUME cycle # NoCycle, NEW s \in Source,
                      coverage'[s] # NoEntry, coverage'[s].seen = cycle.id
               PROVE  coverage'[s].attempt > cycle.begun
    BY DEF SeenAfter
  <2>1. cycle.id # NoCycle
    BY CycleBegun
  <2>2. coverage[s] \in Entry \cup {NoEntry}
    BY DEF TypeOK, Coverage
  <2>3. /\ coverage[s] # NoEntry /\ coverage[s].seen = cycle.id
        /\ coverage'[s].attempt = coverage[s].attempt
    BY <2>1, <2>2, ScheduledTypes, DiscoveredTypes
  <2> QED
    BY <2>3 DEF CycleInv, SeenAfter
<1> QED
  BY <1>1 DEF Schedule, CycleInv, cacheVars

LEMMA CycleFetch ==
  ASSUME TypeOK, QueueInv, CycleInv, NEW outcome \in Outcome, Fetch(outcome)
  PROVE  CycleInv'
<1>1. /\ Now \in Stamp /\ Now \in Nat /\ Now = clock + 1 /\ clock \in Nat
      /\ \A t \in Source : t # Head(queue) => coverage'[t] = coverage[t]
      /\ Head(queue) \in Source /\ coverage[Head(queue)] \in Entry
      /\ coverage'[Head(queue)] = Attempt(coverage[Head(queue)], Head(queue), outcome)
  BY FetchedTypes
<1>2. clock' = Now /\ UNCHANGED <<file, cycle, cache, cachedCycle>> /\ cycle \in CycleOrNone
  BY DEF Fetch, TypeOK, cacheVars
<1>3. coverage'[Head(queue)].attempt = Now
  BY <1>1, <1>2, Attempted
<1>4. cycle # NoCycle => cycle.begun \in Nat /\ cycle.begun <= clock
  BY CycleBegun DEF CycleInv
<1>5. cachedCycle # NoCycle => cachedCycle.begun \in Nat /\ cachedCycle.begun <= clock
  BY CycleBegun DEF CycleInv
<1>6. SeenAfter(coverage', cycle)
  <2> SUFFICES ASSUME cycle # NoCycle, NEW t \in Source,
                      coverage'[t] # NoEntry, coverage'[t].seen = cycle.id
               PROVE  coverage'[t].attempt > cycle.begun
    BY DEF SeenAfter
  <2>1. CASE t = Head(queue)
    BY <1>1, <1>3, <1>4, <2>1
  <2>2. CASE t # Head(queue)
    BY <1>1, <2>2 DEF CycleInv, SeenAfter
  <2> QED
    BY <2>1, <2>2
<1>7. /\ cycle # NoCycle => cycle.begun <= Now
      /\ cachedCycle # NoCycle => cachedCycle.begun <= Now
  BY <1>1, <1>4, <1>5
<1> QED
  BY <1>2, <1>6, <1>7 DEF CycleInv

LEMMA CycleKept ==
  ASSUME TypeOK, QueueInv, CycleInv, [Next]_vars
  PROVE  CycleInv'
<1>1. ASSUME NEW id \in usage.cycles \cup {NoCycle}, Start(id) PROVE CycleInv'
  BY <1>1, UsedCycles, CycleStart
<1>2. ASSUME NEW checkpointOnly \in BOOLEAN, StartReplay(checkpointOnly) PROVE CycleInv'
  <2>1. Clear /\ UNCHANGED <<clock, cache, cachedCycle>>
    BY <1>2 DEF StartReplay, cacheVars
  <2> QED
    BY <2>1, CycleForget, ClockTypes
<1>3. CASE Schedule
  BY <1>3, CycleSchedule
<1>4. CASE SaveCoverage
  BY <1>4 DEF SaveCoverage, CycleInv, cacheVars
<1>5. CASE StopCrawl
  BY <1>5 DEF StopCrawl, CycleInv, cacheVars
<1>6. CASE FinishRun
  <2>1. /\ \/ UNCHANGED <<cache, cachedCycle>>
           \/ cache' = file /\ cachedCycle' = cycle
        /\ UNCHANGED clock
        /\ Forget \/ UNCHANGED jobVars
    BY <1>6, Saved DEF FinishRun
  <2>2. CASE Forget
    BY <2>1, <2>2, CycleForget, ClockTypes DEF Forget
  <2>3. CASE UNCHANGED jobVars
    BY <2>1, <2>3 DEF CycleInv, jobVars
  <2> QED
    BY <2>1, <2>2, <2>3
<1>7. CASE SaveCheckpoint
  <2>1. /\ UNCHANGED <<clock, cache, cachedCycle>>
        /\ UNCHANGED jobVars \/ Forget
    BY <1>7 DEF SaveCheckpoint, cacheVars, FailPublication
  <2>2. CASE UNCHANGED jobVars
    BY <2>1, <2>2 DEF CycleInv, jobVars
  <2> QED
    BY <2>1, <2>2, CycleForget, ClockTypes DEF Forget
<1>8. ASSUME NEW outcome \in Outcome, Fetch(outcome) PROVE CycleInv'
  BY <1>8, CycleFetch
<1>9. ASSUME NEW s \in Source, SendPage(s) PROVE CycleInv'
  <2>1. /\ UNCHANGED <<clock, cache, cachedCycle>>
        /\ UNCHANGED jobVars \/ Forget
    BY <1>9 DEF SendPage, cacheVars, FailPublication
  <2>2. CASE UNCHANGED jobVars
    BY <2>1, <2>2 DEF CycleInv, jobVars
  <2> QED
    BY <2>1, <2>2, CycleForget, ClockTypes DEF Forget
<1>10. CASE CrashRun
  <2>1. /\ \/ UNCHANGED <<cache, cachedCycle>>
           \/ cache' = file /\ cachedCycle' = cycle
        /\ UNCHANGED clock /\ Forget
    BY <1>10, Saved DEF CrashRun
  <2> QED
    BY <2>1, CycleForget, ClockTypes DEF Forget
<1>11. CASE LoseRunner
  BY <1>11, CycleForget, ClockTypes DEF LoseRunner, cacheVars, Forget
<1>12. CASE EvictCache
  <2>1. SeenAfter(cache', cachedCycle') /\ cachedCycle' = NoCycle
    BY <1>12 DEF EvictCache, SeenAfter
  <2> QED
    BY <1>12, <2>1 DEF EvictCache, CycleInv, jobVars
<1>13. CASE Pause
  <2>1. clock' \in Nat /\ clock <= clock' /\ Clear /\ UNCHANGED <<cache, cachedCycle>>
    BY <1>13, ClockTypes, Constants DEF Pause, Now, cacheVars, Forget
  <2> QED
    BY <2>1, CycleForget
<1>14. CASE UNCHANGED vars
  BY <1>14 DEF vars, cacheVars, jobVars, CycleInv
<1> QED
  BY <1>1, <1>2, <1>3, <1>4, <1>5, <1>6, <1>7, <1>8, <1>9, <1>10, <1>11, <1>12, <1>13, <1>14 DEF Next

-----------------------------------------------------------------------------
(* The pages of jobs against the pages of the server *)

(* A page that arrives is staged or is no newer than what is there.        *)
LEMMA SendAdvances ==
  ASSUME TypeOK, OwnInv, PublishInv, NEW s \in Source, SendPage(s)
  PROVE  /\ \A t \in Source, at \in Nat : Has(sources, t, at) => Has(sources', t, at)
         /\ toSend' = toSend \ {s} /\ UNCHANGED pc => Has(sources', s, pages[s].latest)
<1>1. pc = "publish" /\ s \in toSend /\ sources \in Heads /\ pages \in Heads
  BY DEF SendPage, TypeOK
<1>2. pages[s] # NoPage
  BY <1>1 DEF PublishInv
<1>3. /\ pages[s].latest \in Nat /\ pages[s].oldest = pages[s].latest
  BY <1>1, <1>2, HeadTypes DEF OwnInv, OwnPages, Own
<1> DEFINE staged == IF Stages(sources[s], pages[s]) THEN [sources EXCEPT ![s] = pages[s]] ELSE sources
<1>4. /\ \A t \in Source : t # s => staged[t] = sources[t]
      /\ staged[s] = IF Stages(sources[s], pages[s]) THEN pages[s] ELSE sources[s]
  BY <1>1 DEF Heads
<1>5. \/ sources' = staged /\ toSend' = toSend \ {s} /\ UNCHANGED pc
      \/ sources' \in {staged, sources} /\ pc' = "idle"
  BY DEF SendPage, FailPublication
<1> HIDE DEF staged
<1>6. sources[s] # NoPage => sources[s].latest \in Nat
  BY <1>1, HeadTypes
<1>7. Has(staged, s, pages[s].latest)
  <2>1. CASE Stages(sources[s], pages[s])
    BY <1>2, <1>3, <1>4, <2>1 DEF Has
  <2>2. CASE ~Stages(sources[s], pages[s])
    BY <1>3, <1>4, <1>6, <2>2 DEF Has, Stages, Superseded
  <2> QED
    BY <2>1, <2>2
<1>8. ASSUME NEW t \in Source, NEW at \in Nat, Has(sources, t, at)
      PROVE  Has(staged, t, at)
  <2>1. CASE t # s
    BY <1>4, <1>8, <2>1 DEF Has
  <2>2. CASE t = s /\ Stages(sources[s], pages[s])
    <3>1. sources[s].latest <= pages[s].oldest
      BY <1>3, <1>6, <1>8, <2>2 DEF Stages, Superseded, Has
    <3> QED
      BY <1>2, <1>3, <1>4, <1>6, <1>8, <2>2, <3>1 DEF Has
  <2>3. CASE t = s /\ ~Stages(sources[s], pages[s])
    BY <1>4, <1>8, <2>3 DEF Has
  <2> QED
    BY <2>1, <2>2, <2>3
<1>9. sources' = staged \/ sources' = sources
  BY <1>5
<1> QED
  BY <1>1, <1>5, <1>7, <1>8, <1>9

LEMMA SourcesAdvance ==
  ASSUME TypeOK, OwnInv, PublishInv, [Next]_vars
  PROVE  /\ \A t \in Source, at \in Nat : Has(sources, t, at) => Has(sources', t, at)
         /\ clock' \in Nat /\ clock <= clock' /\ clock \in Nat
<1>1. CASE UNCHANGED <<sources, clock>>
  BY <1>1, ClockTypes
<1>2. ASSUME NEW s \in Source, SendPage(s)
      PROVE  /\ \A t \in Source, at \in Nat : Has(sources, t, at) => Has(sources', t, at)
             /\ clock' \in Nat /\ clock <= clock' /\ clock \in Nat
  <2>1. UNCHANGED clock
    BY <1>2 DEF SendPage
  <2>2. clock \in Nat /\ clock' \in Nat /\ clock <= clock'
    BY <2>1, ClockTypes
  <2>3. \A t \in Source, at \in Nat : Has(sources, t, at) => Has(sources', t, at)
    BY <1>2, SendAdvances
  <2> QED
    BY <2>2, <2>3
<1>3. CASE clock' = Now /\ Now \in Stamp /\ UNCHANGED sources
  BY <1>3, ClockTypes, Constants DEF Now
<1>4. CASE UNCHANGED vars
  BY <1>1, <1>4 DEF vars, serverVars
<1>5. ASSUME NEW outcome \in Outcome, Fetch(outcome)
      PROVE  clock' = Now /\ Now \in Stamp /\ UNCHANGED sources
  BY <1>5 DEF Fetch, serverVars
<1>6. ASSUME NEW id, Start(id) PROVE UNCHANGED <<sources, clock>>
  BY <1>6 DEF Start, serverVars
<1>7. ASSUME NEW checkpointOnly, StartReplay(checkpointOnly) PROVE UNCHANGED <<sources, clock>>
  BY <1>7 DEF StartReplay, serverVars
<1>8. CASE Pause
  BY <1>3, <1>8 DEF Pause, serverVars
<1>9. CASE Schedule \/ SaveCoverage \/ StopCrawl \/ FinishRun \/ SaveCheckpoint
  BY <1>1, <1>9 DEF Schedule, SaveCoverage, StopCrawl, FinishRun, SaveCheckpoint, serverVars
<1>10. CASE CrashRun \/ LoseRunner \/ EvictCache
  BY <1>1, <1>10 DEF CrashRun, LoseRunner, EvictCache, serverVars
<1> QED
  BY <1>1, <1>2, <1>3, <1>4, <1>5, <1>6, <1>7, <1>8, <1>9, <1>10 DEF Next

LEMMA YoungBefore ==
  ASSUME NEW p \in Page \cup {NoPage}, NEW t \in Nat, NEW u \in Nat, t <= u, Young(p, u)
  PROVE  Young(p, t)
BY PageTypes, Constants DEF Young

LEMMA ServerKept ==
  ASSUME TypeOK, ReplayInv, OwnInv, ServerInv, PublishInv, [Next]_vars
  PROVE  ServerInv'
<1>1. /\ \A t \in Source, at \in Nat : Has(sources, t, at) => Has(sources', t, at)
      /\ clock' \in Nat /\ clock <= clock' /\ clock \in Nat
      /\ sources \in Heads /\ published \in Heads /\ reported \in Nat
  <2>1. sources \in Heads /\ published \in Heads /\ reported \in Nat
    BY ClockTypes DEF TypeOK
  <2> QED
    BY <2>1, SourcesAdvance
<1>2. CASE UNCHANGED <<published, reported>> /\ pc' # "published"
  <2>1. \A s \in Source : published[s] # NoPage => Has(sources', s, published[s].latest)
    BY <1>1, HeadTypes DEF ServerInv
  <2>2. reported <= clock'
    BY <1>1 DEF ServerInv
  <2> QED
    BY <1>2, <2>1, <2>2 DEF ServerInv
<1>3. CASE SaveCheckpoint
  <2>1. /\ pc = "publish" /\ toSend = {} /\ UNCHANGED <<clock, sources, toSend>>
        /\ \/ published' = sources /\ reported' = FinishedAt
           \/ UNCHANGED <<published, reported>> /\ pc' = "idle"
    BY <1>3 DEF SaveCheckpoint, FailPublication
  <2>2. CASE published' = sources /\ reported' = FinishedAt
    <3>1. FinishedAt <= clock
      BY <1>1, <2>1 DEF FinishedAt, ReplayInv, OwnInv
    <3>2. \A s \in Source : sources[s] # NoPage => Has(sources, s, sources[s].latest)
      BY <1>1, HeadTypes DEF Has
    <3> QED
      BY <2>1, <2>2, <3>1, <3>2 DEF ServerInv
  <2>3. CASE UNCHANGED <<published, reported>> /\ pc' = "idle"
    BY <1>2, <2>3
  <2> QED
    BY <2>1, <2>2, <2>3
<1>4. CASE UNCHANGED vars
  BY <1>4 DEF vars, serverVars, ServerInv
<1>5. ASSUME NEW s \in Source, SendPage(s) PROVE ServerInv'
  <2>1. UNCHANGED <<published, reported>> /\ pc' # "published"
    BY <1>5 DEF SendPage, FailPublication
  <2> QED
    BY <1>2, <2>1
<1>6. ASSUME NEW outcome \in Outcome, Fetch(outcome) PROVE ServerInv'
  BY <1>2, <1>6 DEF Fetch, serverVars
<1>7. ASSUME NEW id \in usage.cycles \cup {NoCycle}, Start(id) PROVE ServerInv'
  BY <1>2, <1>7 DEF Start, serverVars
<1>8. ASSUME NEW checkpointOnly \in BOOLEAN, StartReplay(checkpointOnly) PROVE ServerInv'
  BY <1>2, <1>8 DEF StartReplay, serverVars
<1>9. CASE Schedule \/ SaveCoverage \/ StopCrawl \/ EvictCache
  BY <1>2, <1>9 DEF Schedule, SaveCoverage, StopCrawl, EvictCache, serverVars
<1>10. CASE FinishRun \/ CrashRun \/ LoseRunner \/ Pause
  BY <1>2, <1>10 DEF FinishRun, CrashRun, LoseRunner, Pause, serverVars
<1> QED
  BY <1>3, <1>4, <1>5, <1>6, <1>7, <1>8, <1>9, <1>10 DEF Next

LEMMA KnownStays ==
  ASSUME TypeOK, OwnInv, PublishInv, KnownInv, [Next]_vars,
         UNCHANGED <<pages, previous, coverage>> \/ Clear
  PROVE  KnownInv'
<1>1. /\ \A t \in Source, at \in Nat : Has(sources, t, at) => Has(sources', t, at)
      /\ clock' \in Nat /\ clock <= clock' /\ clock \in Nat
      /\ coverage \in Coverage /\ previous \in [Source -> Nat]
  <2>1. coverage \in Coverage /\ previous \in [Source -> Nat]
    BY Constants DEF TypeOK
  <2> QED
    BY <2>1, SourcesAdvance
<1>2. CASE UNCHANGED <<pages, previous, coverage>>
  <2>1. ASSUME NEW s \in Source
        PROVE  /\ pages[s] = NoPage /\ previous[s] # 0 => Has(sources', s, previous[s])
               /\ coverage[s] # NoEntry /\ Young(coverage[s].page, clock') =>
                    pages[s] = coverage[s].page \/ Has(sources', s, coverage[s].page.latest)
    <3>1. pages[s] = NoPage /\ previous[s] # 0 => Has(sources', s, previous[s])
      BY <1>1 DEF KnownInv
    <3>2. ASSUME coverage[s] # NoEntry, Young(coverage[s].page, clock')
          PROVE  pages[s] = coverage[s].page \/ Has(sources', s, coverage[s].page.latest)
      <4>1. coverage[s].page \in Page \cup {NoPage} /\ coverage[s].page # NoPage
        BY <1>1, <3>2, EntryTypes DEF Young
      <4>2. Young(coverage[s].page, clock) /\ coverage[s].page.latest \in Nat
        BY <1>1, <3>2, <4>1, YoungBefore, PageTypes
      <4> QED
        BY <1>1, <3>2, <4>2 DEF KnownInv
    <3> QED
      BY <3>1, <3>2
  <2> QED
    BY <1>2, <2>1 DEF KnownInv
<1>3. CASE Clear
  BY <1>3, ClearTypes DEF KnownInv
<1> QED
  BY <1>2, <1>3

(* What a job restores.  Events of the cache that are not among its pages  *)
(* are those of the snapshot, older than them, or too old to count.        *)
LEMMA Restored ==
  ASSUME TypeOK, OwnInv, ServerInv, NEW s \in Source, ~Unpublished(s)
  PROVE  /\ Recovered(s) # 0 => Has(sources, s, Recovered(s))
         /\ cache[s] # NoEntry /\ Young(cache[s].page, clock) => Has(sources, s, cache[s].page.latest)
         /\ cache[s] # NoEntry /\ cache[s].page # NoPage /\ Recovered(s) # 0 =>
              \/ cache[s].page.latest <= Recovered(s)
              \/ cache[s].page.active /\ clock - cache[s].page.latest > Fresh
<1>1. cache \in Coverage /\ published \in Heads /\ sources \in Heads /\ clock \in Nat
  BY ClockTypes DEF TypeOK
<1>2. /\ Snapshot(s) \in Nat
      /\ Snapshot(s) # 0 => Has(sources, s, Snapshot(s)) /\ sources[s].latest \in Nat
  BY <1>1, RowTypes, HeadTypes DEF Snapshot, ServerInv, Has
<1>3. ASSUME NEW at \in Nat, at <= Snapshot(s), Snapshot(s) # 0 PROVE Has(sources, s, at)
  BY <1>2, <1>3 DEF Has
<1>4. CASE cache[s] = NoEntry
  BY <1>2, <1>4 DEF Recovered, Recoverable
<1>5. CASE cache[s] # NoEntry /\ cache[s].page = NoPage
  BY <1>2, <1>5 DEF Recovered, Recoverable, Young
<1>6. CASE cache[s] # NoEntry /\ cache[s].page # NoPage
  <2> DEFINE p == cache[s].page
  <2>1. p \in Page /\ p.latest \in Nat /\ p.active \in BOOLEAN /\ 0 < p.latest
    BY <1>1, <1>6, EntryTypes, PageTypes DEF OwnInv, OwnEntries, Own
  <2>2. Row(p) = IF p.active THEN p.latest ELSE 0
    BY <1>6 DEF Row
  <2>3. Recoverable(s) <=> Snapshot(s) <= p.latest /\ (p.active => clock - p.latest <= Fresh)
    BY <1>6 DEF Recoverable, IsFresh
  <2>4. Recovered(s) = IF Recoverable(s) THEN Row(p) ELSE Snapshot(s)
    BY DEF Recovered
  <2>5. Recoverable(s) => IF p.active THEN p.latest = Snapshot(s) ELSE ~(clock - p.latest <= Fresh)
    BY DEF Unpublished, IsFresh
  <2>6. Young(p, clock) => clock - p.latest <= Fresh
    BY <1>1, <2>1, Constants DEF Young
  <2> HIDE DEF p
  <2>7. CASE Recoverable(s)
    <3>1. Recovered(s) # 0 => p.active /\ Recovered(s) = p.latest /\ p.latest = Snapshot(s)
      BY <2>2, <2>4, <2>5, <2>7
    <3>2. Young(p, clock) => p.active /\ p.latest = Snapshot(s) /\ Snapshot(s) # 0
      BY <2>1, <2>5, <2>6, <2>7
    <3> QED
      BY <1>2, <1>6, <2>1, <3>1, <3>2 DEF p
  <2>8. CASE ~Recoverable(s)
    <3>1. Recovered(s) = Snapshot(s)
      BY <2>4, <2>8
    <3>2. p.latest < Snapshot(s) \/ (p.active /\ clock - p.latest > Fresh)
      BY <1>1, <1>2, <2>1, <2>3, <2>8, Constants
    <3>3. Young(p, clock) => Has(sources, s, p.latest)
      <4>1. p.active /\ clock - p.latest > Fresh => ~Young(p, clock)
        BY <1>1, <2>1, <2>6, Constants
      <4>2. p.latest < Snapshot(s) => p.latest <= Snapshot(s) /\ Snapshot(s) # 0
        BY <1>2, <2>1
      <4> QED
        BY <1>3, <2>1, <3>2, <4>1, <4>2
    <3>4. p.latest <= Snapshot(s) \/ (p.active /\ clock - p.latest > Fresh)
      BY <1>2, <2>1, <3>2
    <3> QED
      BY <1>2, <1>6, <3>1, <3>3, <3>4 DEF p
  <2> QED
    BY <2>7, <2>8
<1> QED
  BY <1>4, <1>5, <1>6

LEMMA KnownStart ==
  ASSUME TypeOK, OwnInv, ServerInv, NEW id \in Cycle \cup {NoCycle}, Start(id)
  PROVE  KnownInv' /\ RunInv'
<1>1. /\ UNCHANGED <<sources, published, clock, cache>> /\ startedAt' = clock /\ ~replay'
      /\ pc' = "listing"
  BY DEF Start, serverVars
<1>2. ASSUME NEW s \in Source
      PROVE  /\ previous'[s] = Recovered(s)
             /\ pages'[s] = IF Unpublished(s) THEN cache[s].page ELSE NoPage
             /\ Unpublished(s) => cache[s] # NoEntry /\ cache[s].page # NoPage
  <2>1. /\ previous'[s] = Recovered(s)
        /\ pages'[s] = IF Unpublished(s) THEN cache[s].page ELSE NoPage
    BY DEF Start
  <2> QED
    BY <2>1 DEF Unpublished, Recoverable
<1>3. ASSUME NEW s \in Source
      PROVE  /\ coverage'[s] # NoEntry /\ coverage'[s].page # NoPage =>
                  cache[s] # NoEntry /\ coverage'[s].page = cache[s].page
             /\ cache[s] # NoEntry => coverage'[s] # NoEntry /\ coverage'[s].page = cache[s].page
             /\ coverage'[s] = NoEntry => Recovered(s) = 0 /\ cache[s] = NoEntry
  BY StartEntries
<1>4. KnownInv'
  <2> SUFFICES ASSUME NEW s \in Source
               PROVE  /\ pages'[s] = NoPage /\ previous'[s] # 0 => Has(sources, s, previous'[s])
                      /\ coverage'[s] # NoEntry /\ Young(coverage'[s].page, clock) =>
                           pages'[s] = coverage'[s].page \/ Has(sources, s, coverage'[s].page.latest)
    BY <1>1 DEF KnownInv
  <2>1. CASE Unpublished(s)
    BY <1>2, <1>3, <2>1
  <2>2. CASE ~Unpublished(s)
    <3>1. Recovered(s) # 0 => Has(sources, s, Recovered(s))
      BY <2>2, Restored
    <3>2. cache[s] # NoEntry /\ Young(cache[s].page, clock) => Has(sources, s, cache[s].page.latest)
      BY <2>2, Restored
    <3>3. coverage'[s] # NoEntry /\ Young(coverage'[s].page, clock) => Has(sources, s, coverage'[s].page.latest)
      BY <1>3, <3>2 DEF Young
    <3> QED
      BY <1>2, <3>1, <3>3
  <2> QED
    BY <2>1, <2>2
<1>5. RunInv'
  <2> SUFFICES ASSUME NEW s \in Source
               PROVE  /\ pages'[s] # NoPage => coverage'[s] # NoEntry /\ coverage'[s].page = pages'[s]
                      /\ previous'[s] # 0 \/ Snapshot(s) # 0 => coverage'[s] # NoEntry
                      /\ pages'[s] = NoPage /\ previous'[s] # 0 /\ coverage'[s].page # NoPage =>
                           \/ coverage'[s].page.latest <= previous'[s]
                           \/ coverage'[s].page.active /\ clock - coverage'[s].page.latest > Fresh
    BY <1>1 DEF RunInv, Snapshot
  <2>1. pages'[s] # NoPage => coverage'[s] # NoEntry /\ coverage'[s].page = pages'[s]
    BY <1>2, <1>3
  <2>2. previous'[s] # 0 \/ Snapshot(s) # 0 => coverage'[s] # NoEntry
    <3>1. cache[s] = NoEntry => Recovered(s) = Snapshot(s)
      BY DEF Recovered, Recoverable
    <3> QED
      BY <1>2, <1>3, <3>1
  <2>3. ASSUME pages'[s] = NoPage, previous'[s] # 0, coverage'[s].page # NoPage
        PROVE  \/ coverage'[s].page.latest <= previous'[s]
               \/ coverage'[s].page.active /\ clock - coverage'[s].page.latest > Fresh
    <3>1. ~Unpublished(s) /\ Recovered(s) # 0 /\ previous'[s] = Recovered(s)
      BY <1>2, <2>3
    <3>2. cache[s] # NoEntry /\ coverage'[s].page = cache[s].page
      BY <1>3, <2>2, <2>3
    <3> QED
      BY <2>3, <3>1, <3>2, Restored
  <2> QED
    BY <2>1, <2>2, <2>3
<1> QED
  BY <1>4, <1>5

LEMMA KnownSchedule ==
  ASSUME TypeOK, KnownInv, RunInv, Schedule
  PROVE  KnownInv' /\ RunInv'
<1>1. /\ UNCHANGED <<sources, published, clock, startedAt, previous, pages, replay>>
      /\ pc = "listing" /\ pc' = "crawl"
  BY DEF Schedule, serverVars
<1>2. ASSUME NEW s \in Source
      PROVE  /\ coverage[s] # NoEntry => coverage'[s] # NoEntry /\ coverage'[s].page = coverage[s].page
             /\ coverage[s] = NoEntry /\ coverage'[s] # NoEntry => coverage'[s].page = NoPage
  <2>1. coverage[s] \in Entry \cup {NoEntry}
    BY DEF TypeOK, Coverage
  <2> QED
    BY <2>1, ScheduledTypes, DiscoveredTypes
<1>3. KnownInv'
  <2> SUFFICES ASSUME NEW s \in Source
               PROVE  /\ pages[s] = NoPage /\ previous[s] # 0 => Has(sources, s, previous[s])
                      /\ coverage'[s] # NoEntry /\ Young(coverage'[s].page, clock) =>
                           pages[s] = coverage'[s].page \/ Has(sources, s, coverage'[s].page.latest)
    BY <1>1 DEF KnownInv
  <2>1. coverage'[s] # NoEntry /\ coverage'[s].page # NoPage =>
          coverage[s] # NoEntry /\ coverage'[s].page = coverage[s].page
    BY <1>2
  <2> QED
    BY <2>1 DEF KnownInv, Young
<1>4. RunInv'
  <2> SUFFICES ASSUME NEW s \in Source
               PROVE  /\ pages[s] # NoPage => coverage'[s] # NoEntry /\ coverage'[s].page = pages[s]
                      /\ previous[s] # 0 \/ Snapshot(s) # 0 => coverage'[s] # NoEntry
                      /\ pages[s] = NoPage /\ previous[s] # 0 /\ coverage'[s].page # NoPage =>
                           \/ coverage'[s].page.latest <= previous[s]
                           \/ coverage'[s].page.active /\ startedAt - coverage'[s].page.latest > Fresh
    BY <1>1 DEF RunInv, Snapshot
  <2> QED
    BY <1>1, <1>2 DEF RunInv
<1> QED
  BY <1>3, <1>4

LEMMA KnownFetch ==
  ASSUME TypeOK, QueueInv, KnownInv, RunInv, NEW outcome \in Outcome, Fetch(outcome)
  PROVE  KnownInv' /\ RunInv'
<1>1. /\ UNCHANGED <<sources, published, startedAt, previous, replay, pc>> /\ pc = "crawl"
      /\ clock' = Now /\ coverage \in Coverage /\ cycle \in CycleOrNone
  BY DEF Fetch, serverVars, TypeOK
<1>2. Now \in Stamp /\ Now \in Nat /\ Now = clock + 1 /\ clock \in Nat
  BY FetchedTypes
<1>3. clock <= Now
  BY <1>2
<1> DEFINE s == Head(queue)
           e == coverage'[s]
<1>4. /\ s \in Source /\ coverage[s] \in Entry /\ coverage[s] # NoEntry
      /\ e = Attempt(coverage[s], s, outcome)
      /\ \A t \in Source : t # s => coverage'[t] = coverage[t] /\ pages'[t] = pages[t]
      /\ pages'[s] = IF outcome = "failed" THEN pages[s] ELSE e.page
  BY FetchedTypes
<1> HIDE DEF s, e
<1>5. e # NoEntry /\ (outcome = "failed" => e.page = coverage[s].page)
  BY <1>1, <1>2, <1>4, Attempted
<1>6. outcome # "failed" => e.page # NoPage
  <2> DEFINE verified == outcome = "verified"
  <2>1. verified \in BOOLEAN
    OBVIOUS
  <2>2. outcome # "failed" => e.page = PageAt(s, Now, verified)
    BY <1>1, <1>2, <1>4, Attempted
  <2> HIDE DEF verified
  <2> QED
    BY <1>2, <1>4, <2>1, <2>2, NewPage
(* An entry is as it was, or its new page is among the pages.              *)
<1>7. ASSUME NEW t \in Source
      PROVE  \/ /\ pages'[t] = pages[t] /\ (coverage'[t] = NoEntry <=> coverage[t] = NoEntry)
                /\ coverage[t] # NoEntry => coverage'[t].page = coverage[t].page
             \/ coverage'[t] # NoEntry /\ pages'[t] = coverage'[t].page /\ pages'[t] # NoPage
  <2>1. CASE t # s
    BY <1>4, <2>1
  <2>2. CASE t = s /\ outcome = "failed"
    BY <1>4, <1>5, <2>2 DEF e
  <2>3. CASE t = s /\ outcome # "failed"
    BY <1>4, <1>5, <1>6, <2>3 DEF e
  <2> QED
    BY <2>1, <2>2, <2>3
<1>8. KnownInv'
  <2> SUFFICES ASSUME NEW t \in Source
               PROVE  /\ pages'[t] = NoPage /\ previous[t] # 0 => Has(sources, t, previous[t])
                      /\ coverage'[t] # NoEntry /\ Young(coverage'[t].page, Now) =>
                           pages'[t] = coverage'[t].page \/ Has(sources, t, coverage'[t].page.latest)
    BY <1>1 DEF KnownInv
  <2>1. ASSUME coverage[t] # NoEntry, Young(coverage[t].page, Now)
        PROVE  Young(coverage[t].page, clock)
    BY <1>1, <1>2, <1>3, <2>1, EntryTypes, YoungBefore
  <2> QED
    BY <1>7, <2>1 DEF KnownInv
<1>9. RunInv'
  <2> SUFFICES ASSUME NEW t \in Source
               PROVE  /\ pages'[t] # NoPage => coverage'[t] # NoEntry /\ coverage'[t].page = pages'[t]
                      /\ previous[t] # 0 \/ Snapshot(t) # 0 => coverage'[t] # NoEntry
                      /\ pages'[t] = NoPage /\ previous[t] # 0 /\ coverage'[t].page # NoPage =>
                           \/ coverage'[t].page.latest <= previous[t]
                           \/ coverage'[t].page.active /\ startedAt - coverage'[t].page.latest > Fresh
    BY <1>1 DEF RunInv, Snapshot
  <2> QED
    BY <1>1, <1>7 DEF RunInv
<1> QED
  BY <1>8, <1>9

LEMMA KnownKept ==
  ASSUME CollectorInv, [Next]_vars
  PROVE  KnownInv' /\ RunInv'
<1> USE DEF CollectorInv
<1>1. ASSUME NEW id \in usage.cycles \cup {NoCycle}, Start(id) PROVE KnownInv' /\ RunInv'
  BY <1>1, UsedCycles, KnownStart
<1>2. CASE Schedule
  BY <1>2, KnownSchedule
<1>3. ASSUME NEW outcome \in Outcome, Fetch(outcome) PROVE KnownInv' /\ RunInv'
  BY <1>3, KnownFetch
<1>4. CASE SaveCoverage \/ StopCrawl
  <2>1. /\ UNCHANGED <<published, startedAt, previous, pages, coverage, replay>>
        /\ pc \in {"crawl", "stopped"}
    BY <1>4 DEF SaveCoverage, StopCrawl, serverVars
  <2>2. RunInv'
    BY <2>1 DEF RunInv, Snapshot
  <2> QED
    BY <2>1, <2>2, KnownStays
<1>5. CASE UNCHANGED vars
  <2>1. UNCHANGED <<published, startedAt, previous, pages, coverage, replay, pc>>
    BY <1>5 DEF vars, serverVars, jobVars
  <2>2. RunInv'
    BY <2>1 DEF RunInv, Snapshot
  <2> QED
    BY <2>1, <2>2, KnownStays
(* The others end a run or take place without one.                         *)
<1>6. ASSUME Clear \/ UNCHANGED jobVars, pc' \notin {"listing", "crawl", "stopped"}
      PROVE  KnownInv' /\ RunInv'
  <2>1. Clear \/ UNCHANGED <<pages, previous, coverage>>
    BY <1>6 DEF jobVars
  <2>2. RunInv'
    BY <1>6 DEF RunInv
  <2> QED
    BY <2>1, <2>2, KnownStays
<1>7. ASSUME NEW checkpointOnly, StartReplay(checkpointOnly) PROVE KnownInv' /\ RunInv'
  BY <1>6, <1>7 DEF StartReplay
<1>8. ASSUME NEW s \in Source, SendPage(s) PROVE KnownInv' /\ RunInv'
  <2>1. /\ Clear \/ UNCHANGED jobVars
        /\ pc' \notin {"listing", "crawl", "stopped"}
    BY <1>8 DEF SendPage, FailPublication, Forget
  <2> QED
    BY <1>6, <2>1
<1>9. CASE SaveCheckpoint
  <2>1. /\ Clear \/ UNCHANGED jobVars
        /\ pc' \notin {"listing", "crawl", "stopped"}
    BY <1>9 DEF SaveCheckpoint, FailPublication, Forget
  <2> QED
    BY <1>6, <2>1
<1>10. CASE FinishRun
  BY <1>6, <1>10 DEF FinishRun, Forget
<1>11. CASE CrashRun \/ LoseRunner \/ Pause
  BY <1>6, <1>11 DEF CrashRun, LoseRunner, Pause, Forget
<1>12. CASE EvictCache
  BY <1>6, <1>12 DEF EvictCache
<1> QED
  BY <1>1, <1>2, <1>3, <1>4, <1>5, <1>7, <1>8, <1>9, <1>10, <1>11, <1>12 DEF Next

LEMMA SentStays ==
  ASSUME TypeOK, OwnInv, PublishInv, [Next]_vars, NEW heads \in Heads, NEW s \in Source, Sent(heads, s)
  PROVE  Young(heads[s], clock') => Has(sources', s, heads[s].latest)
<1>1. /\ \A t \in Source, at \in Nat : Has(sources, t, at) => Has(sources', t, at)
      /\ clock' \in Nat /\ clock <= clock' /\ clock \in Nat
  BY SourcesAdvance
<1>2. SUFFICES ASSUME Young(heads[s], clock') PROVE Has(sources', s, heads[s].latest)
  OBVIOUS
<1>3. heads[s] \in Page /\ heads[s].latest \in Nat
  BY <1>2, HeadTypes DEF Young
<1>4. Young(heads[s], clock)
  BY <1>1, <1>2, <1>3, YoungBefore
<1> QED
  BY <1>1, <1>3, <1>4 DEF Sent

(* The pages of a job and of its artifact, as long as they are the same.   *)
LEMMA PagesStay ==
  ASSUME TypeOK, OwnInv, PublishInv, [Next]_vars
  PROVE  /\ UNCHANGED pages => \A s \in Source : Sent(pages, s) => Sent(pages, s)'
         /\ artifact # NoArtifact /\ artifact' # NoArtifact /\ artifact'.pages = artifact.pages =>
              \A s \in Source : Sent(artifact.pages, s) => Sent(artifact.pages, s)'
<1>1. pages \in Heads /\ (artifact # NoArtifact => artifact.pages \in Heads)
  BY DEF TypeOK, Artifact
<1>2. ASSUME UNCHANGED pages, NEW s \in Source, Sent(pages, s) PROVE Sent(pages, s)'
  BY <1>1, <1>2, SentStays DEF Sent
<1>3. ASSUME artifact # NoArtifact, artifact'.pages = artifact.pages,
             NEW s \in Source, Sent(artifact.pages, s)
      PROVE  Sent(artifact.pages, s)'
  BY <1>1, <1>3, SentStays DEF Sent
<1> QED
  BY <1>2, <1>3

LEMMA ArtifactSent ==
  ASSUME CollectorInv, [Next]_vars,
         \/ UNCHANGED artifact
         \/ pc = "publish" /\ FailPublication(FALSE)
         \/ pc = "publish" /\ toSend = {} /\ FailPublication(TRUE)
  PROVE  artifact' # NoArtifact /\ artifact'.imported => \A s \in Source : Sent(artifact.pages, s)'
<1> USE DEF CollectorInv
<1>1. SUFFICES ASSUME artifact' # NoArtifact, artifact'.imported
               PROVE  \A s \in Source : Sent(artifact.pages, s)'
  OBVIOUS
<1>2. CASE UNCHANGED artifact
  BY <1>1, <1>2, PagesStay DEF PublishInv
<1>3. ASSUME NEW complete \in BOOLEAN, pc = "publish", complete => toSend = {}, FailPublication(complete)
      PROVE  \A s \in Source : Sent(artifact.pages, s)'
  <2>1. replay => artifact # NoArtifact /\ pages = artifact.pages
    BY <1>3 DEF ReplayInv
  <2>2. \/ artifact' = artifact
        \/ ~replay /\ artifact' = [pages |-> pages, at |-> clock, imported |-> FALSE]
        \/ /\ replay /\ artifact' # NoArtifact
           /\ artifact'.pages = artifact.pages /\ artifact'.at = artifact.at
           /\ artifact'.imported => artifact.imported \/ complete
    BY <1>3, <2>1, FailTypes
  <2>3. CASE artifact' = artifact
    BY <1>2, <2>3
  <2>4. CASE artifact' = [pages |-> pages, at |-> clock, imported |-> FALSE]
    BY <1>1, <2>4
  <2>5. CASE /\ replay /\ artifact' # NoArtifact /\ artifact'.pages = artifact.pages
             /\ artifact'.imported => artifact.imported \/ complete
    <3>1. \A s \in Source : Sent(artifact.pages, s)
      <4>1. CASE artifact.imported
        BY <2>1, <2>5, <4>1 DEF PublishInv
      <4>2. CASE complete
        BY <1>3, <2>1, <2>5, <4>2 DEF PublishInv
      <4> QED
        BY <1>1, <2>5, <4>1, <4>2
    <3> QED
      BY <2>1, <2>5, <3>1, PagesStay
  <2> QED
    BY <2>2, <2>3, <2>4, <2>5
<1> QED
  BY <1>2, <1>3

LEMMA PublishKept ==
  ASSUME CollectorInv, [Next]_vars
  PROVE  PublishInv' /\ ReplayInv'
<1> USE DEF CollectorInv
(* Steps that leave the job's publication as it is, or end it.             *)
<1>1. ASSUME pc' \notin {"publish", "published"},
             artifact' # NoArtifact /\ artifact'.imported => \A s \in Source : Sent(artifact.pages, s)'
      PROVE  PublishInv' /\ ReplayInv'
  BY <1>1 DEF PublishInv, ReplayInv
<1>2. ASSUME NEW checkpointOnly \in BOOLEAN, StartReplay(checkpointOnly) PROVE PublishInv' /\ ReplayInv'
  <2>1. /\ artifact # NoArtifact /\ reported < artifact.at
        /\ pages' = artifact.pages /\ pc' = "publish"
        /\ UNCHANGED <<clock, sources, reported, artifact>>
    BY <1>2 DEF StartReplay, serverVars
  <2>2. ReplayInv'
    BY <2>1 DEF ReplayInv
  <2> DEFINE importable == {s \in Source : pages'[s] # NoPage /\ clock - pages'[s].latest <= ImportAge}
  <2>3. /\ checkpointOnly => artifact.imported
        /\ toSend' = IF checkpointOnly THEN {} ELSE importable
    BY <1>2 DEF StartReplay
  <2>4. \A s \in Source : s \in toSend' \/ Sent(pages, s)'
    <3>1. CASE checkpointOnly
      BY <2>1, <2>3, <3>1 DEF PublishInv, Sent
    <3>2. CASE ~checkpointOnly
      BY <2>1, <2>3, <3>2 DEF Sent, Young
    <3> QED
      BY <3>1, <3>2
  <2>5. \A s \in toSend' : pages'[s] # NoPage
    BY <2>3
  <2>6. artifact' # NoArtifact /\ artifact'.imported => \A s \in Source : Sent(artifact.pages, s)'
    BY <2>1, ArtifactSent
  <2> QED
    BY <2>2, <2>4, <2>5, <2>6 DEF PublishInv
<1>3. CASE FinishRun
  <2>1. /\ UNCHANGED <<clock, sources, artifact>> /\ pc \in {"crawl", "stopped"}
        /\ toSend' = IF GatePasses THEN {s \in Source : Importable(s)} ELSE {}
        /\ pc' = IF toSend' # {} THEN "publish" ELSE "idle"
        /\ IF toSend' # {} THEN UNCHANGED jobVars ELSE Forget
    BY <1>3 DEF FinishRun, serverVars
  <2>2. artifact' # NoArtifact /\ artifact'.imported => \A s \in Source : Sent(artifact.pages, s)'
    BY <2>1, ArtifactSent
  <2>3. CASE toSend' = {}
    BY <1>1, <2>1, <2>2, <2>3
  <2>4. CASE toSend' # {}
    <3>1. UNCHANGED <<pages, replay>> /\ ~replay /\ toSend' = {s \in Source : Importable(s)} /\ pc' = "publish"
      BY <2>1, <2>4 DEF jobVars, RunInv
    <3>2. \A s \in Source : s \in toSend' \/ Sent(pages, s)'
      BY <2>1, <3>1 DEF Sent, Young, Importable
    <3>3. \A s \in toSend' : pages'[s] # NoPage
      BY <3>1 DEF Importable
    <3> QED
      BY <2>2, <3>1, <3>2, <3>3 DEF PublishInv, ReplayInv
  <2> QED
    BY <2>3, <2>4
<1>4. ASSUME NEW s \in Source, SendPage(s) PROVE PublishInv' /\ ReplayInv'
  <2>1. pc = "publish"
    BY <1>4 DEF SendPage
  <2>2. \/ toSend' = toSend \ {s} /\ UNCHANGED <<pc, jobVars, artifact, reported>>
        \/ FailPublication(FALSE)
    BY <1>4 DEF SendPage
  <2>3. CASE FailPublication(FALSE)
    <3>1. pc' = "idle"
      BY <2>3 DEF FailPublication
    <3> QED
      BY <1>1, <2>1, <2>3, <3>1, ArtifactSent
  <2>4. CASE toSend' = toSend \ {s} /\ UNCHANGED <<pc, jobVars, artifact, reported>>
    <3>1. UNCHANGED <<pages, replay, pc, artifact, reported>>
      BY <2>4 DEF jobVars
    <3>2. Has(sources', s, pages[s].latest)
      BY <1>4, <2>4, SendAdvances
    <3>3. Sent(pages, s)'
      BY <3>1, <3>2 DEF Sent
    <3>4. \A t \in Source : t \in toSend' \/ Sent(pages, t)'
      <4> TAKE t \in Source
      <4>1. t \in toSend \/ Sent(pages, t)
        BY <2>1 DEF PublishInv
      <4> QED
        BY <2>4, <3>1, <3>3, <4>1, PagesStay
    <3>5. \A t \in toSend' : pages'[t] # NoPage
      BY <2>1, <2>4, <3>1 DEF PublishInv
    <3>6. artifact' # NoArtifact /\ artifact'.imported => \A t \in Source : Sent(artifact.pages, t)'
      BY <3>1, ArtifactSent
    <3>7. ReplayInv'
      BY <3>1 DEF ReplayInv
    <3> QED
      BY <3>4, <3>5, <3>6, <3>7 DEF PublishInv
  <2> QED
    BY <2>2, <2>3, <2>4
<1>5. CASE SaveCheckpoint
  <2>1. pc = "publish" /\ toSend = {} /\ UNCHANGED toSend
    BY <1>5 DEF SaveCheckpoint
  <2>2. \/ pc' = "published" /\ UNCHANGED <<jobVars, artifact>>
        \/ FailPublication(TRUE)
    BY <1>5 DEF SaveCheckpoint
  <2>3. CASE FailPublication(TRUE)
    <3>1. pc' = "idle"
      BY <2>3 DEF FailPublication
    <3> QED
      BY <1>1, <2>1, <2>3, <3>1, ArtifactSent
  <2>4. CASE pc' = "published" /\ UNCHANGED <<jobVars, artifact>>
    <3>1. UNCHANGED pages
      BY <2>4 DEF jobVars
    <3>2. \A t \in Source : t \in toSend' \/ Sent(pages, t)'
      BY <2>1, <3>1, PagesStay DEF PublishInv
    <3>3. artifact' # NoArtifact /\ artifact'.imported => \A t \in Source : Sent(artifact.pages, t)'
      BY <2>4, ArtifactSent
    <3> QED
      BY <2>4, <3>2, <3>3 DEF PublishInv, ReplayInv
  <2> QED
    BY <2>2, <2>3, <2>4
<1>6. CASE UNCHANGED vars
  <2>1. UNCHANGED <<pc, pages, toSend, artifact, replay, reported>>
    BY <1>6 DEF vars, jobVars, serverVars
  <2>2. \A t \in Source : Sent(pages, t) => Sent(pages, t)'
    BY <2>1, PagesStay
  <2>3. artifact' # NoArtifact /\ artifact'.imported => \A t \in Source : Sent(artifact.pages, t)'
    BY <2>1, ArtifactSent
  <2>4. ReplayInv'
    BY <2>1 DEF ReplayInv
  <2> QED
    BY <2>1, <2>2, <2>3, <2>4 DEF PublishInv
<1>7. ASSUME UNCHANGED artifact, pc' \notin {"publish", "published"} PROVE PublishInv' /\ ReplayInv'
  BY <1>1, <1>7, ArtifactSent
<1>8. ASSUME NEW id, Start(id) PROVE PublishInv' /\ ReplayInv'
  BY <1>7, <1>8 DEF Start
<1>9. ASSUME NEW outcome, Fetch(outcome) PROVE PublishInv' /\ ReplayInv'
  BY <1>7, <1>9 DEF Fetch
<1>10. CASE Schedule \/ SaveCoverage \/ StopCrawl \/ EvictCache
  BY <1>7, <1>10 DEF Schedule, SaveCoverage, StopCrawl, EvictCache
<1>11. CASE CrashRun \/ LoseRunner \/ Pause
  BY <1>7, <1>11 DEF CrashRun, LoseRunner, Pause
<1> QED
  BY <1>2, <1>3, <1>4, <1>5, <1>6, <1>8, <1>9, <1>10, <1>11 DEF Next

-----------------------------------------------------------------------------
(* The invariant *)

LEMMA InitEstablishes == Init => CollectorInv
<1> SUFFICES ASSUME Init PROVE CollectorInv
  OBVIOUS
<1>1. TypeOK
  <2>1. /\ sources \in Heads /\ published \in Heads /\ pages \in Heads
        /\ cache \in Coverage /\ file \in Coverage /\ coverage \in Coverage
        /\ cycle \in CycleOrNone /\ cachedCycle \in CycleOrNone
    BY DEF Init, Heads, Coverage, CycleOrNone
  <2>2. /\ waits \in [Source -> Nat] /\ previous \in [Source -> Stamp]
        /\ evictions \in 0 .. MaxEvictions /\ clock \in Stamp /\ reported \in Stamp
        /\ startedAt \in Stamp
    BY Constants DEF Init
  <2>3. /\ usage \in Usage /\ artifact = NoArtifact /\ replay = FALSE /\ pc = "idle"
        /\ toSend = {} /\ queue = << >>
    BY DEF Init
  <2> QED
    BY <2>1, <2>2, <2>3, EmptyQueue DEF TypeOK
<1>2. QueueInv
  BY EmptyQueue DEF Init, QueueInv
<1>3. OwnInv /\ CycleInv
  BY DEF Init, OwnInv, OwnPages, OwnEntries, CycleInv, SeenAfter
<1>4. ServerInv /\ KnownInv /\ RunInv /\ PublishInv /\ ReplayInv
  BY DEF Init, ServerInv, KnownInv, RunInv, PublishInv, ReplayInv
<1> QED
  BY <1>1, <1>2, <1>3, <1>4 DEF CollectorInv

LEMMA StepPreserves == CollectorInv /\ [Next]_vars => CollectorInv'
<1> SUFFICES ASSUME CollectorInv, [Next]_vars PROVE CollectorInv'
  OBVIOUS
<1>1. TypeOK' /\ QueueInv'
  BY TypesKept DEF CollectorInv
<1>2. OwnInv' /\ CycleInv' /\ ServerInv'
  BY OwnKept, CycleKept, ServerKept DEF CollectorInv
<1>3. KnownInv' /\ RunInv' /\ PublishInv' /\ ReplayInv'
  BY KnownKept, PublishKept
<1> QED
  BY <1>1, <1>2, <1>3 DEF CollectorInv

LEMMA Invariance == Spec => []CollectorInv
BY InitEstablishes, StepPreserves, PTL DEF Spec

(* The variables keep their types: no run fetches a page twice or more     *)
(* pages than it may, and the queue holds sources.                         *)
THEOREM TypeCorrect == Spec => []TypeOK
<1>1. CollectorInv => TypeOK
  BY DEF CollectorInv
<1> QED
  BY <1>1, Invariance, PTL

(* What any job verified and kept in the coverage file is in the next      *)
(* successful publication while it is young enough to be imported: a job   *)
(* has it among its pages, which it sends before it asks for the           *)
(* checkpoint, or it is at the server already.                             *)
THEOREM VerifiedReachesPublication == Spec => []VerifiedIsPublished
<1>1. CollectorInv => VerifiedIsPublished
  <2> SUFFICES ASSUME CollectorInv, pc = "published", NEW s \in Source,
                      coverage[s] # NoEntry, coverage[s].page # NoPage,
                      clock - coverage[s].page.latest <= ImportAge
               PROVE  published[s] # NoPage /\ coverage[s].page.latest <= published[s].latest
    BY DEF VerifiedIsPublished
  <2> USE DEF CollectorInv
  <2>1. Young(coverage[s].page, clock)
    BY DEF Young
  <2>2. pages[s] = coverage[s].page \/ Has(sources, s, coverage[s].page.latest)
    BY <2>1 DEF KnownInv
  <2>3. Has(sources, s, coverage[s].page.latest)
    BY <2>1, <2>2 DEF PublishInv, ServerInv, Sent
  <2> QED
    BY <2>3 DEF ServerInv, Has
<1> QED
  BY <1>1, Invariance, PTL

(* The events a gate counted, or a replay republishes, are in the catalog  *)
(* that the server publishes, in that observation or a newer one.          *)
THEOREM GateCountsCatalog == Spec => []GateSeesCatalog
<1>1. CollectorInv => GateSeesCatalog
  <2> SUFFICES ASSUME CollectorInv, pc = "published", NEW s \in Source,
                      NEW expected,
                      expected = IF replay /\ pages[s] # NoPage THEN pages[s].latest ELSE Reconciled(s),
                      expected # 0, pages[s] # NoPage => Importable(s)
               PROVE  published[s] # NoPage /\ expected <= published[s].latest
    BY DEF GateSeesCatalog
  <2> USE DEF CollectorInv
  <2>1. published = sources /\ toSend = {}
    BY DEF ServerInv
  <2>2. CASE pages[s] # NoPage
    <3>1. Young(pages[s], clock)
      BY <2>2 DEF Importable, Young
    <3>2. Has(sources, s, pages[s].latest)
      BY <2>1, <3>1 DEF PublishInv, Sent
    <3>3. expected = pages[s].latest
      BY <2>2 DEF Reconciled, Row
    <3> QED
      BY <2>1, <3>2, <3>3 DEF Has
  <2>3. CASE pages[s] = NoPage
    <3>1. expected = previous[s]
      BY <2>3 DEF Reconciled
    <3> QED
      BY <2>1, <2>3, <3>1 DEF KnownInv, Has
  <2> QED
    BY <2>2, <2>3
<1> QED
  BY <1>1, Invariance, PTL

(* A report of a full cycle that claims to be complete is right.           *)
THEOREM CompleteReportsAreTrue == Spec => []CompleteMeansSeen
<1>1. CollectorInv => CompleteMeansSeen
  <2> SUFFICES ASSUME CollectorInv, ReportsComplete, NEW s \in Source
               PROVE  /\ coverage[s] # NoEntry =>
                           coverage[s].page # NoPage /\ coverage[s].page.latest > cycle.begun
                           /\ (coverage[s].page.active \/ coverage[s].retired # 0)
                      /\ Snapshot(s) # 0 => coverage[s] # NoEntry
                      /\ Reconciled(s) # 0 => Reconciled(s) > cycle.begun
    BY DEF CompleteMeansSeen
  <2> USE DEF CollectorInv
  <2>1. pc = "crawl" /\ cycle # NoCycle /\ coverage \in Coverage /\ previous \in [Source -> Nat]
        /\ pages \in Heads
    BY Constants DEF ReportsComplete, TypeOK
  <2>2. cycle.begun \in Nat
    BY <2>1, CycleBegun
  <2>3. Snapshot(s) # 0 \/ previous[s] # 0 => coverage[s] # NoEntry
    BY <2>1 DEF RunInv
  <2>4. ASSUME coverage[s] # NoEntry
        PROVE  /\ coverage[s].page # NoPage /\ coverage[s].page.latest > cycle.begun
               /\ coverage[s].page.active \/ coverage[s].retired # 0
               /\ coverage[s].retired = 0 => startedAt - coverage[s].page.latest <= Fresh
    <3>1. /\ SeenInCycle(coverage[s]) /\ Observed(coverage[s]) \in {"verified", "retired"}
          /\ coverage[s].retired = 0 => startedAt - coverage[s].page.latest <= Fresh
      BY <2>4 DEF ReportsComplete, Terminal
    <3>2. coverage[s].attempt > cycle.begun
      BY <2>1, <2>4, <3>1 DEF CycleInv, SeenAfter, SeenInCycle
    <3>3. coverage[s].page # NoPage /\ coverage[s].page.latest = coverage[s].attempt
      BY <3>1 DEF Observed
    <3>4. coverage[s].page.active \/ coverage[s].retired # 0
      BY <3>1, <3>3 DEF Observed
    <3> QED
      BY <3>1, <3>2, <3>3, <3>4
  <2>5. ASSUME Reconciled(s) # 0 PROVE Reconciled(s) > cycle.begun
    <3>1. CASE pages[s] # NoPage
      <4>1. coverage[s] # NoEntry /\ coverage[s].page = pages[s]
        BY <2>1, <3>1 DEF RunInv
      <4>2. Reconciled(s) = pages[s].latest
        BY <2>5, <3>1 DEF Reconciled, Row
      <4> QED
        BY <2>4, <4>1, <4>2
    <3>2. CASE pages[s] = NoPage
      <4>1. Reconciled(s) = previous[s] /\ previous[s] # 0 /\ previous[s] \in Nat
        BY <2>1, <2>5, <3>2 DEF Reconciled
      <4>2. coverage[s] # NoEntry /\ coverage[s].page # NoPage /\ coverage[s].page.latest > cycle.begun
        BY <2>3, <2>4, <4>1
      <4>3. \/ coverage[s].page.latest <= previous[s]
            \/ coverage[s].page.active /\ startedAt - coverage[s].page.latest > Fresh
        BY <2>1, <3>2, <4>1, <4>2 DEF RunInv
      <4>4. coverage[s].page.latest \in Nat /\ startedAt \in Nat
        BY <2>1, <4>2, EntryTypes, PageTypes, ClockTypes
      <4>5. coverage[s].page.active => startedAt - coverage[s].page.latest <= Fresh
        BY <2>4, <4>2 DEF OwnInv, OwnEntries
      <4>6. coverage[s].page.latest <= previous[s]
        BY <4>3, <4>4, <4>5, Constants
      <4> QED
        BY <2>2, <4>1, <4>2, <4>4, <4>6
    <3> QED
      BY <3>1, <3>2
  <2> QED
    BY <2>3, <2>4, <2>5
<1> QED
  BY <1>1, Invariance, PTL

(* No publication, also one of a replay, takes a source of the catalog     *)
(* back to an earlier observation, or the catalog to an earlier report.    *)
THEOREM PublicationsNeverGoBack == Spec => PublicationAdvances
<1>1. CollectorInv /\ [Next]_vars =>
        [/\ reported <= reported'
         /\ \A s \in Source : published[s] # NoPage =>
              published'[s] # NoPage /\ published[s].latest <= published'[s].latest]_vars
  <2> SUFFICES ASSUME CollectorInv, [Next]_vars
               PROVE  /\ reported <= reported'
                      /\ \A s \in Source : published[s] # NoPage =>
                           published'[s] # NoPage /\ published[s].latest <= published'[s].latest
    OBVIOUS
  <2> USE DEF CollectorInv
  <2>1. reported \in Nat /\ published \in Heads /\ clock \in Nat
    BY ClockTypes DEF TypeOK
  <2>2. CASE UNCHANGED <<published, reported>>
    BY <2>1, <2>2, HeadTypes
  <2>3. CASE SaveCheckpoint
    <3>1. /\ pc = "publish"
          /\ \/ published' = sources /\ reported' = FinishedAt
             \/ UNCHANGED <<published, reported>>
      BY <2>3 DEF SaveCheckpoint
    <3>2. reported <= FinishedAt
      <4>1. replay => artifact # NoArtifact /\ reported < artifact.at
        BY <3>1 DEF ReplayInv
      <4>2. artifact # NoArtifact => artifact.at \in Nat
        BY Constants DEF TypeOK, Artifact
      <4> QED
        BY <2>1, <4>1, <4>2 DEF FinishedAt, ServerInv
    <3>3. \A s \in Source : published[s] # NoPage =>
             sources[s] # NoPage /\ published[s].latest <= sources[s].latest
      BY DEF ServerInv, Has
    <3> QED
      BY <2>2, <3>1, <3>2, <3>3
  <2>4. CASE UNCHANGED vars
    BY <2>2, <2>4 DEF vars, serverVars
  <2>5. ASSUME NEW id, Start(id) PROVE UNCHANGED <<published, reported>>
    BY <2>5 DEF Start, serverVars
  <2>6. ASSUME NEW checkpointOnly, StartReplay(checkpointOnly) PROVE UNCHANGED <<published, reported>>
    BY <2>6 DEF StartReplay, serverVars
  <2>7. ASSUME NEW outcome, Fetch(outcome) PROVE UNCHANGED <<published, reported>>
    BY <2>7 DEF Fetch, serverVars
  <2>8. ASSUME NEW s, SendPage(s) PROVE UNCHANGED <<published, reported>>
    BY <2>8 DEF SendPage
  <2>9. CASE Schedule \/ SaveCoverage \/ StopCrawl \/ FinishRun
    BY <2>2, <2>9 DEF Schedule, SaveCoverage, StopCrawl, FinishRun, serverVars
  <2>10. CASE CrashRun \/ LoseRunner \/ EvictCache \/ Pause
    BY <2>2, <2>10 DEF CrashRun, LoseRunner, EvictCache, Pause, serverVars
  <2> QED
    BY <2>2, <2>3, <2>4, <2>5, <2>6, <2>7, <2>8, <2>9, <2>10 DEF Next
<1> QED
  BY <1>1, Invariance, PTL DEF Spec, PublicationAdvances

-----------------------------------------------------------------------------
(* The fair order *)

(* Comparing ranks and rounds is the lexical order.                        *)
LEMMA LexicalFour ==
  ASSUME NEW a, NEW b, DOMAIN a = 1 .. 4
  PROVE  Precedes(a, b) <=>
           \/ a[1] < b[1]
           \/ a[1] = b[1] /\ a[2] < b[2]
           \/ a[1] = b[1] /\ a[2] = b[2] /\ a[3] < b[3]
           \/ a[1] = b[1] /\ a[2] = b[2] /\ a[3] = b[3] /\ a[4] < b[4]
<1> DEFINE At(i) == a[i] < b[i] /\ \A j \in 1 .. i - 1 : a[j] = b[j]
<1>1. Precedes(a, b) <=> \E i \in 1 .. 4 : At(i)
  BY DEF Precedes
<1>2. /\ At(1) <=> a[1] < b[1]
      /\ At(2) <=> a[1] = b[1] /\ a[2] < b[2]
      /\ At(3) <=> a[1] = b[1] /\ a[2] = b[2] /\ a[3] < b[3]
      /\ At(4) <=> a[1] = b[1] /\ a[2] = b[2] /\ a[3] = b[3] /\ a[4] < b[4]
  <2>1. 1 .. 1 - 1 = {} /\ 1 .. 2 - 1 = {1} /\ 1 .. 3 - 1 = {1, 2} /\ 1 .. 4 - 1 = {1, 2, 3}
    OBVIOUS
  <2> QED
    BY <2>1
<1> HIDE DEF At
<1>3. (\E i \in 1 .. 4 : At(i)) <=> At(1) \/ At(2) \/ At(3) \/ At(4)
  <2>1. 1 .. 4 = {1, 2, 3, 4}
    OBVIOUS
  <2> QED
    BY <2>1
<1> QED
  BY <1>1, <1>2, <1>3

LEMMA LexicalFirst ==
  ASSUME NEW a1 \in Nat, NEW a2, NEW a3, NEW b1 \in Nat, NEW b2, NEW b3,
         Precedes(<<a1, a2, a3>>, <<b1, b2, b3>>)
  PROVE  a1 <= b1
<1>1. PICK i \in 1 .. 3 : /\ <<a1, a2, a3>>[i] < <<b1, b2, b3>>[i]
                          /\ \A j \in 1 .. i - 1 : <<a1, a2, a3>>[j] = <<b1, b2, b3>>[j]
  BY DEF Precedes
<1>2. CASE i = 1
  BY <1>1, <1>2
<1>3. CASE i # 1
  <2>1. 1 \in 1 .. i - 1
    BY <1>3
  <2> QED
    BY <1>1, <2>1
<1> QED
  BY <1>2, <1>3

LEMMA RankTypes ==
  ASSUME NEW cov \in Coverage, NEW s \in Source, cov[s] # NoEntry
  PROVE  /\ (IF SeenInCycle(cov[s]) THEN 1 ELSE 0) \in Nat
         /\ (IF cov[s].retired # 0 THEN 1 ELSE 0) \in Nat
         /\ cov[s].attempt \in Nat /\ s \in Nat
BY EntryTypes, CollectorAssumption

(* Ranks put known sources into a strict order.                            *)
LEMMA RanksOrdered ==
  ASSUME NEW cov \in Coverage
  PROVE  /\ \A s \in Source : cov[s] # NoEntry => ~Precedes(Rank(cov, s), Rank(cov, s))
         /\ \A s, t \in Source : cov[s] # NoEntry /\ cov[t] # NoEntry /\ s # t =>
              Precedes(Rank(cov, s), Rank(cov, t)) \/ Precedes(Rank(cov, t), Rank(cov, s))
         /\ \A s, t, u \in Source :
              /\ cov[s] # NoEntry /\ cov[t] # NoEntry /\ cov[u] # NoEntry
              /\ Precedes(Rank(cov, s), Rank(cov, t)) /\ Precedes(Rank(cov, t), Rank(cov, u))
              => Precedes(Rank(cov, s), Rank(cov, u))
<1> DEFINE Seen(s) == IF SeenInCycle(cov[s]) THEN 1 ELSE 0
           Gone(s) == IF cov[s].retired # 0 THEN 1 ELSE 0
           Known == {s \in Source : cov[s] # NoEntry}
<1>1. \A s \in Known : Seen(s) \in Nat /\ Gone(s) \in Nat /\ cov[s].attempt \in Nat /\ s \in Nat
  BY RankTypes
<1>2. \A s : Rank(cov, s) = <<Seen(s), Gone(s), cov[s].attempt, s>>
  BY DEF Rank
<1>3. Known \subseteq Source /\ \A s \in Source : cov[s] # NoEntry => s \in Known
  OBVIOUS
<1> HIDE DEF Seen, Gone, Known
<1>4. \A s, t \in Known : Precedes(Rank(cov, s), Rank(cov, t)) <=>
        \/ Seen(s) < Seen(t)
        \/ Seen(s) = Seen(t) /\ Gone(s) < Gone(t)
        \/ Seen(s) = Seen(t) /\ Gone(s) = Gone(t) /\ cov[s].attempt < cov[t].attempt
        \/ Seen(s) = Seen(t) /\ Gone(s) = Gone(t) /\ cov[s].attempt = cov[t].attempt /\ s < t
  <2> SUFFICES ASSUME NEW s \in Known, NEW t \in Known
               PROVE  Precedes(Rank(cov, s), Rank(cov, t)) <=>
                        \/ Seen(s) < Seen(t)
                        \/ Seen(s) = Seen(t) /\ Gone(s) < Gone(t)
                        \/ Seen(s) = Seen(t) /\ Gone(s) = Gone(t) /\ cov[s].attempt < cov[t].attempt
                        \/ Seen(s) = Seen(t) /\ Gone(s) = Gone(t) /\ cov[s].attempt = cov[t].attempt /\ s < t
    OBVIOUS
  <2>1. \A u : /\ DOMAIN Rank(cov, u) = 1 .. 4
               /\ Rank(cov, u)[1] = Seen(u) /\ Rank(cov, u)[2] = Gone(u)
               /\ Rank(cov, u)[3] = cov[u].attempt /\ Rank(cov, u)[4] = u
    BY <1>2
  <2> QED
    BY <2>1, LexicalFour
<1>5. \A s \in Known : ~Precedes(Rank(cov, s), Rank(cov, s))
  BY <1>1, <1>4
<1>6. \A s, t \in Known : s # t => Precedes(Rank(cov, s), Rank(cov, t)) \/ Precedes(Rank(cov, t), Rank(cov, s))
  BY <1>1, <1>4
<1>7. \A s, t, u \in Known : Precedes(Rank(cov, s), Rank(cov, t)) /\ Precedes(Rank(cov, t), Rank(cov, u))
        => Precedes(Rank(cov, s), Rank(cov, u))
  BY <1>1, <1>4
<1> QED
  BY <1>3, <1>5, <1>6, <1>7

(* The candidates of a provider that come before one of them.              *)
Ahead(cov, s) == {t \in Candidates(cov) : Before(cov, t, s)}

LEMMA AheadFinite ==
  ASSUME NEW cov
  PROVE  /\ IsFiniteSet(Candidates(cov)) /\ Cardinality(Candidates(cov)) \in Nat
         /\ \A s : /\ Ahead(cov, s) \in SUBSET Candidates(cov) /\ IsFiniteSet(Ahead(cov, s))
                   /\ Place(cov, s) = Cardinality(Ahead(cov, s)) /\ Place(cov, s) \in Nat
<1>1. IsFiniteSet(Candidates(cov))
  BY Constants, FS_Subset DEF Candidates
<1>2. \A s : Ahead(cov, s) \in SUBSET Candidates(cov) /\ Place(cov, s) = Cardinality(Ahead(cov, s))
  BY DEF Ahead, Place
<1> QED
  BY <1>1, <1>2, FS_Subset, FS_CardinalityType

LEMMA PlacesGrow ==
  ASSUME NEW cov \in Coverage, NEW s \in Candidates(cov), NEW t \in Candidates(cov),
         Before(cov, s, t)
  PROVE  Ahead(cov, s) \subseteq Ahead(cov, t) /\ Place(cov, s) < Place(cov, t)
<1>1. \A u \in Candidates(cov) : u \in Source /\ cov[u] # NoEntry
  BY DEF Candidates
<1>2. Ahead(cov, s) \subseteq Ahead(cov, t)
  BY <1>1, RanksOrdered DEF Ahead, Before
<1>3. s \in Ahead(cov, t) /\ s \notin Ahead(cov, s)
  BY <1>1, RanksOrdered DEF Ahead, Before
<1> QED
  BY <1>2, <1>3, AheadFinite, FS_Subset

(* Two candidates of one provider have different places.                   *)
LEMMA PlacesDiffer ==
  ASSUME NEW cov \in Coverage, NEW s \in Candidates(cov), NEW t \in Candidates(cov),
         s # t, ProviderOf[s] = ProviderOf[t]
  PROVE  Place(cov, s) # Place(cov, t)
<1>1. s \in Source /\ t \in Source /\ cov[s] # NoEntry /\ cov[t] # NoEntry
  BY DEF Candidates
<1>2. Before(cov, s, t) \/ Before(cov, t, s)
  BY <1>1, RanksOrdered DEF Before
<1> QED
  BY <1>2, PlacesGrow, AheadFinite

LEMMA Turns ==
  ASSUME NEW s \in Source
  PROVE  Turn(s) \in 1 .. Len(Providers) /\ Providers[Turn(s)] = ProviderOf[s]
<1>1. DOMAIN Providers = 1 .. Len(Providers) /\ ProviderOf[s] \in ToSet(Providers)
  BY CollectorAssumption
<1>2. \E i \in DOMAIN Providers : Providers[i] = ProviderOf[s]
  BY <1>1 DEF ToSet
<1> QED
  BY <1>1, <1>2 DEF Turn

(* How many pages of each provider a run reaches.                          *)
Share == MaxDetails \div Len(Providers)

LEMMA ShareType ==
  ASSUME Source # {}
  PROVE  Len(Providers) \in Nat /\ Share \in Nat /\ Share > 0 /\ Share * Len(Providers) <= MaxDetails
<1>1. Len(Providers) \in Nat /\ MaxDetails \in Nat /\ MaxDetails >= Len(Providers)
  BY CollectorAssumption
<1>2. Len(Providers) > 0
  BY <1>1, Turns
<1>3. \A n \in Nat, m \in Nat : m > 0 /\ n >= m => n \div m \in Nat /\ n \div m > 0 /\ (n \div m) * m <= n
  OBVIOUS
<1> QED
  BY <1>1, <1>2, <1>3 DEF Share

(* A queue holds a page.                                                   *)
InSeq(seq, s) == \E i \in 1 .. Len(seq) : seq[i] = s

LEMMA OrderTypes ==
  ASSUME NEW cov, NEW order \in FairOrders(cov)
  PROVE  LET n == Cardinality(Candidates(cov))
             m == IF n < MaxDetails THEN n ELSE MaxDetails
         IN  /\ n \in Nat /\ order \in [1 .. n -> Candidates(cov)] /\ order \in Injection(1 .. n, Candidates(cov))
             /\ \A i, j \in 1 .. n : i < j => Earlier(cov, order[i], order[j])
             /\ Len(Started(order)) = m /\ \A i \in 1 .. m : Started(order)[i] = order[i]
<1> DEFINE n == Cardinality(Candidates(cov))
           m == IF n < MaxDetails THEN n ELSE MaxDetails
<1>1. n \in Nat /\ MaxDetails \in Nat
  BY AheadFinite, Constants
<1>2. /\ order \in [1 .. n -> Candidates(cov)]
      /\ \A i, j \in 1 .. n : i # j => order[i] # order[j]
      /\ \A i, j \in DOMAIN order : i < j => Earlier(cov, order[i], order[j])
  BY DEF FairOrders, SetToSeqs
<1> HIDE DEF n
<1>3. order \in Seq(Candidates(cov)) /\ Len(order) = n /\ DOMAIN order = 1 .. n
  BY <1>1, <1>2
<1>4. order \in Injection(1 .. n, Candidates(cov))
  BY <1>2, <1>3 DEF Injection, IsInjective
<1>5. m \in 0 .. n
  BY <1>1
<1>6. Started(order) = SubSeq(order, 1, m)
  BY <1>3 DEF Started
<1> HIDE DEF m
<1>7. Len(Started(order)) = m /\ \A i \in 1 .. m : Started(order)[i] = order[i]
  <2>1. \A i \in 1 .. m : order[i] \in Candidates(cov)
    BY <1>1, <1>2, <1>5
  <2>2. 1 <= m \/ m = 0
    BY <1>1, <1>5
  <2> QED
    BY <1>1, <1>2, <1>5, <1>6, <2>1, <2>2, SubSeqProperties
<1> QED
  BY <1>1, <1>2, <1>3, <1>4, <1>7 DEF n, m

(* A candidate whose place among those of its provider is within the share *)
(* is among those that a run starts: all before it have such a place too,  *)
(* and each pair of a place and a turn is that of one candidate.           *)
LEMMA PlacedIsStarted ==
  ASSUME NEW cov \in Coverage, NEW order \in FairOrders(cov), NEW s \in Candidates(cov),
         Place(cov, s) < Share
  PROVE  InSeq(Started(order), s)
<1> DEFINE n == Cardinality(Candidates(cov))
           m == IF n < MaxDetails THEN n ELSE MaxDetails
           P == Len(Providers)
<1>1. /\ n \in Nat /\ order \in [1 .. n -> Candidates(cov)] /\ order \in Injection(1 .. n, Candidates(cov))
      /\ \A i, j \in 1 .. n : i < j => Earlier(cov, order[i], order[j])
      /\ Len(Started(order)) = m /\ \A i \in 1 .. m : Started(order)[i] = order[i]
  BY OrderTypes
<1>2. /\ Candidates(cov) \subseteq Source /\ IsFiniteSet(Candidates(cov))
      /\ MaxDetails \in Nat
  BY AheadFinite, Constants DEF Candidates
<1>3. P \in Nat /\ Share \in Nat /\ Share > 0 /\ Share * P <= MaxDetails
  BY <1>2, ShareType
<1>4. PICK i \in 1 .. n : order[i] = s
  <2>1. IsFiniteSet(1 .. n) /\ Cardinality(1 .. n) = n
    BY <1>1, FS_Interval
  <2>2. order \in Surjection(1 .. n, Candidates(cov))
    BY <1>1, <1>2, <2>1, FS_Injection
  <2> QED
    BY <2>2 DEF Surjection
<1> HIDE DEF n, P
<1>5. \A j \in 1 .. i : order[j] \in Candidates(cov) /\ j \in 1 .. n
  BY <1>1, <1>4
<1>6. \A j \in 1 .. i : Place(cov, order[j]) \in 0 .. Share - 1
  <2> SUFFICES ASSUME NEW j \in 1 .. i PROVE Place(cov, order[j]) \in 0 .. Share - 1
    OBVIOUS
  <2>1. Place(cov, order[j]) \in Nat /\ Place(cov, s) \in Nat
    BY AheadFinite
  <2>2. CASE j = i
    BY <1>3, <1>4, <2>1, <2>2
  <2>3. CASE j # i
    <3>1. Earlier(cov, order[j], s)
      BY <1>1, <1>4, <1>5, <2>3
    <3>2. Place(cov, order[j]) <= Place(cov, s)
      BY <2>1, <3>1, LexicalFirst DEF Earlier
    <3> QED
      BY <1>3, <2>1, <3>2
  <2> QED
    BY <2>2, <2>3
<1>7. \A j \in 1 .. i : Turn(order[j]) \in 1 .. P /\ Providers[Turn(order[j])] = ProviderOf[order[j]]
  BY <1>2, <1>5, Turns DEF P
<1> DEFINE f == [j \in 1 .. i |-> <<Place(cov, order[j]), Turn(order[j])>>]
           Slots == (0 .. Share - 1) \X (1 .. P)
<1>8. f \in [1 .. i -> Slots]
  BY <1>6, <1>7
<1>9. \A j, k \in 1 .. i : f[j] = f[k] => j = k
  <2> SUFFICES ASSUME NEW j \in 1 .. i, NEW k \in 1 .. i, f[j] = f[k], j # k PROVE FALSE
    OBVIOUS
  <2>1. Place(cov, order[j]) = Place(cov, order[k]) /\ Turn(order[j]) = Turn(order[k])
    OBVIOUS
  <2>2. order[j] # order[k]
    BY <1>1, <1>5 DEF Injection, IsInjective
  <2>3. ProviderOf[order[j]] = ProviderOf[order[k]]
    BY <1>7, <2>1
  <2> QED
    BY <1>5, <2>1, <2>2, <2>3, PlacesDiffer
<1>10. IsFiniteSet(Slots) /\ Cardinality(Slots) = Share * P
  <2>1. IsFiniteSet(0 .. Share - 1) /\ Cardinality(0 .. Share - 1) = Share
    BY <1>3, FS_Interval
  <2>2. IsFiniteSet(1 .. P) /\ Cardinality(1 .. P) = P
    BY <1>3, FS_Interval
  <2> DEFINE A == 0 .. Share - 1
             B == 1 .. P
  <2>3. Cardinality(A) * Cardinality(B) = Share * P
    BY <2>1, <2>2
  <2>4. IsFiniteSet(A) /\ IsFiniteSet(B)
    BY <2>1, <2>2
  <2> HIDE DEF A, B
  <2>5. IsFiniteSet(A \X B) /\ Cardinality(A \X B) = Cardinality(A) * Cardinality(B)
    BY <2>4, FS_Product
  <2> QED
    BY <2>3, <2>5 DEF A, B
<1>11. i <= Share * P
  <2>1. f \in Injection(1 .. i, Slots)
    BY <1>8, <1>9 DEF Injection, IsInjective
  <2> HIDE DEF f, Slots
  <2>2. Cardinality(1 .. i) <= Share * P
    BY <1>10, <2>1, FS_Injection
  <2>3. Cardinality(1 .. i) = i
    BY <1>1, <1>4, FS_Interval
  <2> QED
    BY <2>2, <2>3
<1>12. i \in 1 .. m
  <2>1. Share * P \in Nat
    BY <1>3
  <2> QED
    BY <1>1, <1>2, <1>3, <1>4, <1>11, <2>1
<1> QED
  BY <1>1, <1>4, <1>12 DEF InSeq

(* One of some candidates has none of them ahead.                         *)
LEMMA FirstPlaced ==
  ASSUME NEW cov, NEW T, T \subseteq Candidates(cov), T # {}
  PROVE  \E c \in T : \A u \in T : ~(Ahead(cov, u) \subseteq Ahead(cov, c) /\ Ahead(cov, u) # Ahead(cov, c))
<1> DEFINE C == Candidates(cov)
           F == {Ahead(cov, c) : c \in T}
<1>1. F \subseteq FiniteSubsetsOf(C) /\ F # {}
  BY AheadFinite DEF FiniteSubsetsOf
<1>2. F \subseteq SUBSET C
  BY <1>1 DEF FiniteSubsetsOf
<1>3. IsWellFoundedOn(StrictSubsetOrdering(C), FiniteSubsetsOf(C))
  BY FS_StrictSubsetOrderingWellFounded
<1> HIDE DEF F, C
<1>4. PICK x \in F : \A y \in F : ~(<<y, x>> \in StrictSubsetOrdering(C))
  BY <1>1, <1>3, WFMin
<1>5. \A y \in F : ~(y \subseteq x /\ y # x)
  BY <1>2, <1>4 DEF StrictSubsetOrdering
<1> QED
  BY <1>5 DEF F

(* A candidate that is not started leaves the run to at least a share of   *)
(* candidates of its provider which come before it.                        *)
LEMMA FairShare ==
  ASSUME NEW cov \in Coverage, NEW order \in FairOrders(cov), NEW s \in Candidates(cov),
         ~InSeq(Started(order), s)
  PROVE  Share <= Cardinality({t \in Ahead(cov, s) : InSeq(Started(order), t)})
<1> DEFINE D == {t \in Ahead(cov, s) : InSeq(Started(order), t)}
<1>1. Share \in Nat
  BY ShareType DEF Candidates
<1>2. /\ Ahead(cov, s) \subseteq Candidates(cov) /\ IsFiniteSet(Ahead(cov, s))
      /\ Place(cov, s) = Cardinality(Ahead(cov, s)) /\ Place(cov, s) \in Nat
  BY AheadFinite
<1>3. IsFiniteSet(D) /\ Cardinality(D) \in Nat
  BY <1>2, FS_Subset, FS_CardinalityType
<1>4. Share <= Place(cov, s)
  BY <1>1, <1>2, PlacedIsStarted
<1> SUFFICES ASSUME Cardinality(D) < Share PROVE FALSE
  BY <1>1, <1>3
<1>5. Ahead(cov, s) \ D # {}
  <2> SUFFICES ASSUME Ahead(cov, s) \subseteq D PROVE FALSE
    OBVIOUS
  <2>1. D = Ahead(cov, s)
    OBVIOUS
  <2> QED
    BY <1>1, <1>2, <1>3, <1>4, <2>1
<1>6. PICK c \in Ahead(cov, s) \ D : \A u \in Ahead(cov, s) \ D : ~Before(cov, u, c)
  <2>1. PICK c \in Ahead(cov, s) \ D : \A u \in Ahead(cov, s) \ D :
          ~(Ahead(cov, u) \subseteq Ahead(cov, c) /\ Ahead(cov, u) # Ahead(cov, c))
    <3> DEFINE T == Ahead(cov, s) \ D
    <3>1. T \subseteq Candidates(cov) /\ T # {}
      BY <1>2, <1>5
    <3> HIDE DEF T
    <3>2. \E c \in T : \A u \in T : ~(Ahead(cov, u) \subseteq Ahead(cov, c) /\ Ahead(cov, u) # Ahead(cov, c))
      BY <3>1, FirstPlaced
    <3> QED
      BY <3>2 DEF T
  <2>2. \A u \in Ahead(cov, s) \ D : ~Before(cov, u, c)
    <3> SUFFICES ASSUME NEW u \in Ahead(cov, s) \ D, Before(cov, u, c) PROVE FALSE
      OBVIOUS
    <3>1. u \in Candidates(cov) /\ c \in Candidates(cov)
      BY <1>2
    <3>2. Ahead(cov, u) \subseteq Ahead(cov, c) /\ Place(cov, u) < Place(cov, c)
      BY <3>1, PlacesGrow
    <3> QED
      BY <2>1, <3>2, AheadFinite
  <2> HIDE DEF D
  <2> QED
    BY <2>2
<1>7. c \in Candidates(cov) /\ Before(cov, c, s)
  BY <1>2 DEF Ahead
<1>8. Ahead(cov, c) \subseteq D
  <2> SUFFICES ASSUME NEW u \in Ahead(cov, c), u \notin D PROVE FALSE
    OBVIOUS
  <2>1. u \in Ahead(cov, s)
    BY <1>7, PlacesGrow
  <2>2. u \in Candidates(cov) /\ Before(cov, u, c)
    BY DEF Ahead
  <2> QED
    BY <1>6, <2>1, <2>2
<1>9. Place(cov, c) <= Cardinality(D) /\ Place(cov, c) \in Nat
  BY <1>3, <1>8, AheadFinite, FS_Subset
<1>10. InSeq(Started(order), c)
  BY <1>1, <1>3, <1>7, <1>9, PlacedIsStarted
<1> QED
  BY <1>6, <1>10

-----------------------------------------------------------------------------
(* What was attempted, and when *)

(* Attempts of the past, and what a cycle has not seen, was attempted      *)
(* before it was begun.                                                    *)
TriedBy(entries, t) == \A s \in Source : entries[s] # NoEntry => entries[s].attempt <= t

UnseenBefore(entries, c) ==
  c # NoCycle => \A s \in Source : entries[s] # NoEntry /\ entries[s].seen # c.id =>
    entries[s].attempt <= c.begun

(* The other pages of the provider of s.                                   *)
Mates(s) == {t \in Source : ProviderOf[t] = ProviderOf[s]} \ {s}

(* The pages that rotate: those that are active, and those that are        *)
(* retired and not seen in the cycle.  Their turn is over when they were   *)
(* attempted, or, for the latter, when the cycle was begun.                *)
Rotates(entries, c, s) ==
  /\ entries[s] # NoEntry
  /\ entries[s].retired = 0 \/ (c # NoCycle /\ entries[s].seen # c.id)
Since(entries, c, s) == IF entries[s].retired = 0 THEN entries[s].attempt ELSE c.begun

(* The pages of the provider that had their turn since.                    *)
Served(entries, c, s) ==
  {t \in Mates(s) : entries[t] # NoEntry /\ entries[t].attempt > Since(entries, c, s)}

(* A page waited for as many runs as served a share of other pages.        *)
Waiting(entries, c, s, runs) == Share * runs <= Cardinality(Served(entries, c, s))

(* This holds for pages that were not attempted after t.                   *)
Rotation(entries, c, waited, t) ==
  \A s \in Source :
    /\ entries[s] = NoEntry => waited[s] = 0
    /\ Rotates(entries, c, s) /\ entries[s].attempt <= t => Waiting(entries, c, s, waited[s])

(* A crawl that runs to its end serves a share of pages ahead of each page *)
(* that it does not attempt.                                               *)
CrawlRotation ==
  \A s \in Source :
    Rotates(coverage, cycle, s) /\ coverage[s].attempt <= startedAt /\ ~InSeq(queue, s) =>
      Share * (waits[s] + 1) <=
        Cardinality(Served(coverage, cycle, s) \cup {t \in Mates(s) : InSeq(queue, t)})

AttemptInv ==
  /\ TriedBy(coverage, clock) /\ TriedBy(file, clock) /\ TriedBy(cache, clock)
  /\ UnseenBefore(coverage, cycle) /\ UnseenBefore(file, cycle) /\ UnseenBefore(cache, cachedCycle)

RotationInv ==
  /\ Rotation(cache, cachedCycle, waits, clock)
  /\ pc \in {"listing", "crawl", "stopped"} =>
       Rotation(coverage, cycle, waits, startedAt) /\ Rotation(file, cycle, waits, startedAt)
  /\ pc = "crawl" => CrawlRotation

LEMMA TriedLater ==
  ASSUME NEW entries \in Coverage, NEW t \in Nat, NEW u \in Nat, t <= u, TriedBy(entries, t)
  PROVE  TriedBy(entries, u)
BY EntryTypes DEF TriedBy

(* A job that ends leaves what is in the cache, or its file.               *)
LEMMA AttemptForget ==
  ASSUME TypeOK, AttemptInv, Clear, clock' \in Nat, clock <= clock',
         \/ UNCHANGED <<cache, cachedCycle>>
         \/ cache' = file /\ cachedCycle' = cycle
  PROVE  AttemptInv'
<1>1. \A s \in Source : coverage'[s] = NoEntry /\ file'[s] = NoEntry
  BY ClearTypes
<1>2. cache' \in Coverage /\ clock \in Nat
  BY ClockTypes DEF TypeOK
<1>3. TriedBy(cache', clock) /\ UnseenBefore(cache', cachedCycle')
  BY DEF AttemptInv
<1>4. TriedBy(cache', clock')
  BY <1>2, <1>3, TriedLater
<1>5. /\ TriedBy(coverage', clock') /\ TriedBy(file', clock')
      /\ UnseenBefore(coverage', cycle') /\ UnseenBefore(file', cycle')
  BY <1>1 DEF TriedBy, UnseenBefore
<1> QED
  BY <1>3, <1>4, <1>5 DEF AttemptInv

LEMMA AttemptStart ==
  ASSUME TypeOK, AttemptInv, NEW id \in Cycle \cup {NoCycle}, Start(id)
  PROVE  AttemptInv'
<1>1. /\ cycle' = Begun(id) /\ file' = coverage' /\ UNCHANGED <<clock, cache, cachedCycle>>
      /\ clock \in Nat
  BY ClockTypes DEF Start
<1>2. TriedBy(coverage', clock)
  <2> SUFFICES ASSUME NEW s \in Source, coverage'[s] # NoEntry PROVE coverage'[s].attempt <= clock
    BY DEF TriedBy
  <2>1. CASE cache[s] = NoEntry
    BY <1>1, <2>1, StartEntries
  <2>2. CASE cache[s] # NoEntry
    BY <2>2, StartEntries DEF AttemptInv, TriedBy
  <2> QED
    BY <2>1, <2>2
<1>3. UnseenBefore(coverage', cycle')
  <2> SUFFICES ASSUME cycle' # NoCycle, NEW s \in Source, coverage'[s] # NoEntry,
                      coverage'[s].seen # cycle'.id
               PROVE  coverage'[s].attempt <= cycle'.begun
    BY DEF UnseenBefore
  <2>1. CASE Begins(id)
    <3>1. cycle'.begun = clock
      BY <1>1, <2>1 DEF Begun
    <3> QED
      BY <1>2, <3>1 DEF TriedBy
  <2>2. CASE ~Begins(id)
    <3>1. cycle' = cachedCycle
      BY <1>1, <2>2 DEF Begun
    <3>2. cachedCycle.begun \in Nat
      BY <3>1, CycleBegun
    <3>3. CASE cache[s] = NoEntry
      BY <3>1, <3>2, <3>3, StartEntries
    <3>4. CASE cache[s] # NoEntry
      BY <2>2, <3>1, <3>4, StartEntries DEF AttemptInv, UnseenBefore
    <3> QED
      BY <3>3, <3>4
  <2> QED
    BY <2>1, <2>2
<1> QED
  BY <1>1, <1>2, <1>3 DEF AttemptInv

LEMMA AttemptSchedule ==
  ASSUME TypeOK, AttemptInv, Schedule
  PROVE  AttemptInv'
<1>1. clock \in Nat /\ UNCHANGED <<clock, file, cycle, cache, cachedCycle>>
  BY ClockTypes DEF Schedule, cacheVars
<1>2. \A s \in Source : coverage[s] \in Entry \cup {NoEntry}
  BY DEF TypeOK, Coverage
<1>3. \A s \in Source : coverage'[s] # NoEntry =>
        IF coverage[s] = NoEntry THEN coverage'[s].attempt = 0
        ELSE coverage'[s].attempt = coverage[s].attempt /\ coverage'[s].seen = coverage[s].seen
  BY <1>2, ScheduledTypes, DiscoveredTypes
<1>4. TriedBy(coverage', clock)
  BY <1>1, <1>3 DEF AttemptInv, TriedBy
<1>5. UnseenBefore(coverage', cycle)
  <2> SUFFICES ASSUME cycle # NoCycle, NEW s \in Source, coverage'[s] # NoEntry,
                      coverage'[s].seen # cycle.id
               PROVE  coverage'[s].attempt <= cycle.begun
    BY DEF UnseenBefore
  <2>1. cycle.begun \in Nat
    BY CycleBegun
  <2> QED
    BY <1>3, <2>1 DEF AttemptInv, UnseenBefore
<1> QED
  BY <1>1, <1>4, <1>5 DEF AttemptInv

LEMMA AttemptFetch ==
  ASSUME TypeOK, QueueInv, AttemptInv, NEW outcome \in Outcome, Fetch(outcome)
  PROVE  AttemptInv'
<1>1. /\ Now \in Stamp /\ Now \in Nat /\ Now = clock + 1 /\ clock \in Nat
      /\ \A t \in Source : t # Head(queue) => coverage'[t] = coverage[t]
      /\ Head(queue) \in Source /\ coverage[Head(queue)] \in Entry
      /\ coverage'[Head(queue)] = Attempt(coverage[Head(queue)], Head(queue), outcome)
      /\ coverage \in Coverage /\ file \in Coverage /\ cache \in Coverage
  BY FetchedTypes DEF TypeOK
<1>2. clock' = Now /\ UNCHANGED <<file, cycle, cache, cachedCycle>> /\ cycle \in CycleOrNone
  BY DEF Fetch, TypeOK, cacheVars
<1>3. coverage'[Head(queue)].attempt = Now /\ coverage'[Head(queue)].seen = Id(cycle)
  BY <1>1, <1>2, Attempted
<1>4. TriedBy(file, Now) /\ TriedBy(cache, Now) /\ TriedBy(coverage, Now)
  BY <1>1, TriedLater DEF AttemptInv
<1>5. TriedBy(coverage', Now)
  BY <1>1, <1>3, <1>4 DEF TriedBy
<1>6. UnseenBefore(coverage', cycle)
  BY <1>1, <1>3, CycleBegun DEF AttemptInv, UnseenBefore
<1> QED
  BY <1>2, <1>4, <1>5, <1>6 DEF AttemptInv

LEMMA AttemptKept ==
  ASSUME TypeOK, QueueInv, AttemptInv, [Next]_vars
  PROVE  AttemptInv'
<1>1. ASSUME NEW id \in usage.cycles \cup {NoCycle}, Start(id) PROVE AttemptInv'
  BY <1>1, UsedCycles, AttemptStart
<1>2. ASSUME NEW checkpointOnly \in BOOLEAN, StartReplay(checkpointOnly) PROVE AttemptInv'
  <2>1. Clear /\ UNCHANGED <<clock, cache, cachedCycle>>
    BY <1>2 DEF StartReplay, cacheVars
  <2> QED
    BY <2>1, AttemptForget, ClockTypes
<1>3. CASE Schedule
  BY <1>3, AttemptSchedule
<1>4. CASE SaveCoverage
  BY <1>4 DEF SaveCoverage, AttemptInv, cacheVars
<1>5. CASE StopCrawl
  BY <1>5 DEF StopCrawl, AttemptInv, cacheVars
<1>6. CASE FinishRun
  <2>1. /\ \/ UNCHANGED <<cache, cachedCycle>>
           \/ cache' = file /\ cachedCycle' = cycle
        /\ UNCHANGED clock
        /\ Forget \/ UNCHANGED jobVars
    BY <1>6, Saved DEF FinishRun
  <2>2. CASE Forget
    BY <2>1, <2>2, AttemptForget, ClockTypes DEF Forget
  <2>3. CASE UNCHANGED jobVars
    BY <2>1, <2>3 DEF AttemptInv, jobVars
  <2> QED
    BY <2>1, <2>2, <2>3
<1>7. CASE SaveCheckpoint
  <2>1. /\ UNCHANGED <<clock, cache, cachedCycle>>
        /\ UNCHANGED jobVars \/ Forget
    BY <1>7 DEF SaveCheckpoint, cacheVars, FailPublication
  <2>2. CASE UNCHANGED jobVars
    BY <2>1, <2>2 DEF AttemptInv, jobVars
  <2> QED
    BY <2>1, <2>2, AttemptForget, ClockTypes DEF Forget
<1>8. ASSUME NEW outcome \in Outcome, Fetch(outcome) PROVE AttemptInv'
  BY <1>8, AttemptFetch
<1>9. ASSUME NEW s \in Source, SendPage(s) PROVE AttemptInv'
  <2>1. /\ UNCHANGED <<clock, cache, cachedCycle>>
        /\ UNCHANGED jobVars \/ Forget
    BY <1>9 DEF SendPage, cacheVars, FailPublication
  <2>2. CASE UNCHANGED jobVars
    BY <2>1, <2>2 DEF AttemptInv, jobVars
  <2> QED
    BY <2>1, <2>2, AttemptForget, ClockTypes DEF Forget
<1>10. CASE CrashRun
  <2>1. /\ \/ UNCHANGED <<cache, cachedCycle>>
           \/ cache' = file /\ cachedCycle' = cycle
        /\ UNCHANGED clock /\ Forget
    BY <1>10, Saved DEF CrashRun
  <2> QED
    BY <2>1, AttemptForget, ClockTypes DEF Forget
<1>11. CASE LoseRunner
  BY <1>11, AttemptForget, ClockTypes DEF LoseRunner, cacheVars, Forget
<1>12. CASE EvictCache
  <2>1. \A s \in Source : cache'[s] = NoEntry
    BY <1>12 DEF EvictCache
  <2>2. TriedBy(cache', clock) /\ UnseenBefore(cache', cachedCycle')
    BY <2>1 DEF TriedBy, UnseenBefore
  <2> QED
    BY <1>12, <2>2 DEF EvictCache, AttemptInv, jobVars
<1>13. CASE Pause
  <2>1. clock' \in Nat /\ clock <= clock' /\ Clear /\ UNCHANGED <<cache, cachedCycle>>
    BY <1>13, ClockTypes, Constants DEF Pause, Now, cacheVars, Forget
  <2> QED
    BY <2>1, AttemptForget
<1>14. CASE UNCHANGED vars
  BY <1>14 DEF vars, cacheVars, jobVars, AttemptInv
<1> QED
  BY <1>1, <1>2, <1>3, <1>4, <1>5, <1>6, <1>7, <1>8, <1>9, <1>10, <1>11, <1>12, <1>13, <1>14 DEF Next

-----------------------------------------------------------------------------
(* Turns *)

LEMMA MatesFinite ==
  ASSUME NEW s, NEW T, T \subseteq Mates(s)
  PROVE  IsFiniteSet(T) /\ Cardinality(T) \in Nat
<1>1. Mates(s) \subseteq Source
  BY DEF Mates
<1>2. T \in SUBSET Source
  BY <1>1
<1> QED
  BY <1>2, Constants, FS_Subset, FS_CardinalityType

LEMMA ServedTypes ==
  ASSUME NEW entries, NEW c, NEW s
  PROVE  /\ Served(entries, c, s) \subseteq Mates(s)
         /\ IsFiniteSet(Served(entries, c, s)) /\ Cardinality(Served(entries, c, s)) \in Nat
<1>1. Served(entries, c, s) \subseteq Mates(s)
  BY DEF Served
<1> QED
  BY <1>1, MatesFinite

LEMMA NoWait ==
  ASSUME Source # {}, NEW entries, NEW c, NEW s
  PROVE  Waiting(entries, c, s, 0)
<1>1. Share * 0 = 0
  BY ShareType
<1> QED
  BY <1>1, ServedTypes DEF Waiting

(* Who is served stays so while no entry is lost or attempted earlier.     *)
LEMMA WaitingStays ==
  ASSUME NEW s \in Source, NEW runs \in Nat,
         NEW old, NEW c, Waiting(old, c, s, runs),
         NEW new, NEW d, Since(new, d, s) = Since(old, c, s),
         \A t \in Mates(s) : old[t] # NoEntry /\ old[t].attempt > Since(old, c, s) =>
           new[t] # NoEntry /\ new[t].attempt > Since(old, c, s)
  PROVE  Waiting(new, d, s, runs)
<1>1. Served(old, c, s) \subseteq Served(new, d, s)
  BY DEF Served
<1>2. Cardinality(Served(old, c, s)) <= Cardinality(Served(new, d, s))
  BY <1>1, ServedTypes, FS_Subset
<1>3. Share * runs \in Int
  BY ShareType
<1> QED
  BY <1>2, <1>3, ServedTypes DEF Waiting

(* Entries keep their attempts, and pages that begin to rotate begin with  *)
(* no wait.                                                                *)
LEMMA RotationCarried ==
  ASSUME NEW old, NEW c, NEW waited \in [Source -> Nat], NEW t,
         NEW new, NEW d, NEW left \in [Source -> Nat], NEW u,
         Rotation(old, c, waited, t),
         \A s \in Source :
           /\ new[s] = NoEntry => old[s] = NoEntry
           /\ old[s] # NoEntry => /\ new[s] # NoEntry
                                  /\ new[s].attempt = old[s].attempt /\ new[s].retired = old[s].retired
           /\ left[s] \in {waited[s], 0}
           /\ Rotates(new, d, s) /\ new[s].attempt <= u =>
                \/ left[s] = 0
                \/ Rotates(old, c, s) /\ old[s].attempt <= t /\ Since(new, d, s) = Since(old, c, s)
  PROVE  Rotation(new, d, left, u)
<1> SUFFICES ASSUME NEW s \in Source
             PROVE  /\ new[s] = NoEntry => left[s] = 0
                    /\ Rotates(new, d, s) /\ new[s].attempt <= u => Waiting(new, d, s, left[s])
  BY DEF Rotation
<1>1. new[s] = NoEntry => left[s] = 0
  BY DEF Rotation
<1>2. ASSUME Rotates(new, d, s), new[s].attempt <= u, left[s] # 0
      PROVE  Waiting(new, d, s, left[s])
  <2>1. left[s] = waited[s] /\ waited[s] \in Nat
    BY <1>2
  <2>2. Rotates(old, c, s) /\ old[s].attempt <= t /\ Since(new, d, s) = Since(old, c, s)
    BY <1>2
  <2>3. Waiting(old, c, s, waited[s])
    BY <2>2 DEF Rotation
  <2>4. \A v \in Mates(s) : old[v] # NoEntry /\ old[v].attempt > Since(old, c, s) =>
           new[v] # NoEntry /\ new[v].attempt > Since(old, c, s)
    BY DEF Mates
  <2>5. Waiting(new, d, s, waited[s])
    BY <2>1, <2>2, <2>3, <2>4, WaitingStays
  <2> QED
    BY <2>1, <2>5
<1>3. left[s] = 0 => Waiting(new, d, s, left[s])
  BY NoWait
<1> QED
  BY <1>1, <1>2, <1>3

(* Between jobs only the cache matters, and time does not.                 *)
LEMMA RotationIdle ==
  ASSUME TypeOK, TypeOK', AttemptInv, RotationInv, UNCHANGED <<cache, cachedCycle, waits>>,
         pc' \notin {"listing", "crawl", "stopped"}
  PROVE  RotationInv'
<1>1. /\ cache \in Coverage /\ waits \in [Source -> Nat] /\ clock \in Nat
      /\ Rotation(cache, cachedCycle, waits, clock) /\ TriedBy(cache, clock)
  BY ClockTypes DEF TypeOK, RotationInv, AttemptInv
<1>2. Rotation(cache, cachedCycle, waits, clock')
  BY <1>1, RotationCarried DEF TriedBy, Rotates
<1> QED
  BY <1>2 DEF RotationInv

LEMMA RotationStart ==
  ASSUME TypeOK, TypeOK', AttemptInv, RotationInv, NEW id \in Cycle \cup {NoCycle}, Start(id)
  PROVE  RotationInv'
<1>1. /\ cycle' = Begun(id) /\ file' = coverage' /\ startedAt' = clock /\ pc' = "listing"
      /\ UNCHANGED <<clock, cache, cachedCycle>>
      /\ \A s \in Source : waits'[s] = IF Begins(id) /\ cache[s] # NoEntry /\ cache[s].retired # 0
                                       THEN 0 ELSE waits[s]
  BY DEF Start
<1>2. waits \in [Source -> Nat] /\ waits' \in [Source -> Nat] /\ clock \in Nat
  BY ClockTypes DEF TypeOK
<1>3. Rotation(cache, cachedCycle, waits, clock) /\ TriedBy(cache, clock)
  BY DEF RotationInv, AttemptInv
<1>4. \A s \in Source : waits'[s] \in {waits[s], 0}
  BY <1>1
<1>5. Rotation(cache, cachedCycle, waits', clock)
  BY <1>2, <1>3, <1>4, RotationCarried
<1>6. Rotation(coverage', cycle', waits', clock)
  <2>1. \A s \in Source :
          /\ coverage'[s] = NoEntry => cache[s] = NoEntry
          /\ cache[s] # NoEntry =>
               /\ coverage'[s] # NoEntry
               /\ coverage'[s].attempt = cache[s].attempt /\ coverage'[s].retired = cache[s].retired
    BY StartEntries
  <2>2. ASSUME NEW s \in Source, Rotates(coverage', cycle', s), waits'[s] # 0
        PROVE  /\ Rotates(cache, cachedCycle, s) /\ cache[s].attempt <= clock
               /\ Since(coverage', cycle', s) = Since(cache, cachedCycle, s)
    <3>1. cache[s] # NoEntry
      BY <1>1, <1>3, <2>2 DEF Rotation
    <3>2. /\ cache[s].attempt <= clock
          /\ coverage'[s].attempt = cache[s].attempt /\ coverage'[s].retired = cache[s].retired
      BY <1>3, <2>1, <3>1 DEF TriedBy
    <3>3. CASE cache[s].retired = 0
      BY <3>1, <3>2, <3>3 DEF Rotates, Since
    <3>4. CASE cache[s].retired # 0
      <4>1. ~Begins(id)
        BY <1>1, <2>2, <3>1, <3>4
      <4>2. cycle' = cachedCycle /\ coverage'[s].seen = cache[s].seen
        BY <1>1, <3>1, <4>1, StartEntries DEF Begun
      <4> QED
        BY <2>2, <3>1, <3>2, <3>4, <4>2 DEF Rotates, Since
    <3> QED
      BY <3>3, <3>4
  <2> QED
    BY <1>2, <1>3, <1>4, <2>1, <2>2, RotationCarried
<1> QED
  BY <1>1, <1>5, <1>6 DEF RotationInv

(* A page ahead of another one in the order had no turn since the other.   *)
LEMMA AheadWaits ==
  ASSUME NEW cov \in Coverage, cycle \in CycleOrNone,
         SeenAfter(cov, cycle), UnseenBefore(cov, cycle),
         NEW s \in Source, Rotates(cov, cycle, s), NEW t \in Source, cov[t] # NoEntry,
         Before(cov, t, s)
  PROVE  t \in Mates(s) /\ t \notin Served(cov, cycle, s)
<1> DEFINE Seen(u) == IF SeenInCycle(cov[u]) THEN 1 ELSE 0
           Gone(u) == IF cov[u].retired # 0 THEN 1 ELSE 0
<1>1. cov[s] # NoEntry /\ (cov[s].retired = 0 \/ (cycle # NoCycle /\ cov[s].seen # cycle.id))
  BY DEF Rotates
<1>2. t \in Mates(s)
  BY <1>1, RanksOrdered DEF Before, Mates
<1>3. /\ cov[s].attempt \in Nat /\ cov[t].attempt \in Nat /\ s \in Nat /\ t \in Nat
      /\ cycle # NoCycle => cycle.begun \in Nat
  BY <1>1, EntryTypes, CycleTypes, CollectorAssumption
<1>4. \/ Seen(t) < Seen(s)
      \/ Seen(t) = Seen(s) /\ Gone(t) < Gone(s)
      \/ Seen(t) = Seen(s) /\ Gone(t) = Gone(s) /\ cov[t].attempt <= cov[s].attempt
  <2>1. \A u : /\ DOMAIN Rank(cov, u) = 1 .. 4
               /\ Rank(cov, u)[1] = Seen(u) /\ Rank(cov, u)[2] = Gone(u)
               /\ Rank(cov, u)[3] = cov[u].attempt /\ Rank(cov, u)[4] = u
    BY DEF Rank
  <2>2. Precedes(Rank(cov, t), Rank(cov, s))
    BY DEF Before
  <2> HIDE DEF Seen, Gone
  <2> QED
    BY <1>3, <2>1, <2>2, LexicalFour
<1>5. cov[t].attempt <= Since(cov, cycle, s)
  <2>1. CASE cov[s].retired = 0
    <3>1. Since(cov, cycle, s) = cov[s].attempt /\ Gone(s) = 0
      BY <2>1 DEF Since
    <3>2. CASE Seen(t) < Seen(s)
      <4>1. /\ cycle # NoCycle /\ cov[s].seen = cycle.id /\ cov[t].seen # cycle.id
        BY <3>2 DEF SeenInCycle
      <4>2. cov[s].attempt > cycle.begun /\ cov[t].attempt <= cycle.begun
        BY <1>1, <4>1 DEF SeenAfter, UnseenBefore
      <4> QED
        BY <1>3, <3>1, <4>1, <4>2
    <3>3. CASE ~(Seen(t) < Seen(s))
      BY <1>3, <1>4, <3>1, <3>3
    <3> QED
      BY <3>2, <3>3
  <2>2. CASE cov[s].retired # 0
    <3>1. cycle # NoCycle /\ cov[s].seen # cycle.id /\ Since(cov, cycle, s) = cycle.begun
      BY <1>1, <2>2 DEF Since
    <3>2. Seen(s) = 0
      BY <3>1 DEF SeenInCycle
    <3>3. ~SeenInCycle(cov[t])
      BY <1>4, <3>2
    <3> QED
      BY <3>1, <3>3 DEF SeenInCycle, UnseenBefore
  <2> QED
    BY <2>1, <2>2
<1>6. Since(cov, cycle, s) \in Nat
  BY <1>1, <1>3 DEF Since
<1> QED
  BY <1>2, <1>3, <1>5, <1>6 DEF Served

(* What the queue leaves out has at least a share of the queue ahead.      *)
LEMMA CrawlBegins ==
  ASSUME TypeOK, TypeOK', CycleInv', AttemptInv', Schedule,
         Rotation(coverage', cycle, waits, startedAt)
  PROVE  CrawlRotation'
<1>1. /\ UNCHANGED <<cycle, waits, startedAt>> /\ coverage' \in Coverage /\ cycle \in CycleOrNone
      /\ waits \in [Source -> Nat]
      /\ SeenAfter(coverage', cycle) /\ UnseenBefore(coverage', cycle)
  BY DEF TypeOK, Schedule, CycleInv, AttemptInv, cacheVars
<1>2. PICK order \in FairOrders(coverage') : queue' = Started(order)
  BY DEF Schedule
<1> SUFFICES ASSUME NEW s \in Source, Rotates(coverage', cycle, s), coverage'[s].attempt <= startedAt,
                    ~InSeq(queue', s)
             PROVE  Share * (waits[s] + 1) <=
                      Cardinality(Served(coverage', cycle, s) \cup {t \in Mates(s) : InSeq(queue', t)})
  BY <1>1 DEF CrawlRotation, Served, Since
<1> DEFINE D == {t \in Ahead(coverage', s) : InSeq(Started(order), t)}
           W == Served(coverage', cycle, s)
           Q == {t \in Mates(s) : InSeq(queue', t)}
<1>3. s \in Candidates(coverage')
  BY DEF Candidates, Due, Rotates, SeenInCycle
<1>4. Share <= Cardinality(D)
  BY <1>1, <1>2, <1>3, FairShare
<1>5. \A t \in D : t \in Mates(s) /\ t \notin W
  BY <1>1, AheadWaits DEF Ahead, Candidates
<1>6. D \subseteq Q /\ D \cap W = {} /\ D \subseteq Mates(s) /\ W \subseteq Mates(s) /\ Q \subseteq Mates(s)
  BY <1>2, <1>5 DEF Served
<1>7. Share * waits[s] <= Cardinality(W)
  BY DEF Rotation, Waiting
<1> HIDE DEF D, W, Q
<1>8. /\ IsFiniteSet(D) /\ IsFiniteSet(W) /\ Cardinality(D) \in Nat /\ Cardinality(W) \in Nat
      /\ IsFiniteSet(W \cup Q) /\ Cardinality(W \cup Q) \in Nat
      /\ Cardinality(W \cap D) = 0
  <2>1. W \cup Q \subseteq Mates(s) /\ W \cap D = {}
    BY <1>6
  <2> QED
    BY <1>6, <2>1, MatesFinite, FS_EmptySet
<1>9. Cardinality(W \cup D) = Cardinality(W) + Cardinality(D)
  <2>1. Cardinality(W \cup D) = Cardinality(W) + Cardinality(D) - Cardinality(W \cap D)
    BY <1>8, FS_Union, Zenon
  <2> QED
    BY <1>8, <2>1
<1>10. Cardinality(W \cup D) <= Cardinality(W \cup Q)
  <2>1. W \cup D \in SUBSET (W \cup Q)
    BY <1>6
  <2> QED
    BY <1>8, <2>1, FS_Subset
<1>11. /\ Share \in Nat /\ waits[s] \in Nat /\ Share * waits[s] \in Nat
       /\ Share * (waits[s] + 1) = Share * waits[s] + Share
  <2>1. Share \in Nat /\ waits[s] \in Nat
    BY <1>1, ShareType
  <2> QED
    BY <2>1
<1>12. Share * (waits[s] + 1) <= Cardinality(W \cup Q)
  BY <1>4, <1>7, <1>8, <1>9, <1>10, <1>11
<1> QED
  BY <1>12 DEF W, Q

LEMMA RotationSchedule ==
  ASSUME TypeOK, TypeOK', CycleInv', AttemptInv, AttemptInv', RotationInv, Schedule
  PROVE  RotationInv'
<1>1. /\ UNCHANGED <<clock, file, cycle, startedAt, cache, cachedCycle, waits>>
      /\ pc = "listing" /\ pc' = "crawl"
  BY DEF Schedule, cacheVars
<1>2. /\ Rotation(cache, cachedCycle, waits, clock) /\ Rotation(file, cycle, waits, startedAt)
      /\ Rotation(coverage, cycle, waits, startedAt) /\ waits \in [Source -> Nat]
  BY <1>1 DEF RotationInv, TypeOK
<1>3. \A s \in Source : coverage[s] \in Entry \cup {NoEntry}
  BY DEF TypeOK, Coverage
<1>4. \A s \in Source :
        /\ coverage'[s] = NoEntry => coverage[s] = NoEntry
        /\ coverage[s] # NoEntry =>
             /\ coverage'[s] # NoEntry
             /\ coverage'[s].attempt = coverage[s].attempt /\ coverage'[s].retired = coverage[s].retired
             /\ coverage'[s].seen = coverage[s].seen
  BY <1>3, ScheduledTypes, DiscoveredTypes, Constants
<1>5. Rotation(coverage', cycle, waits, startedAt)
  <2>1. ASSUME NEW s \in Source, Rotates(coverage', cycle, s), coverage'[s].attempt <= startedAt,
               waits[s] # 0
        PROVE  /\ Rotates(coverage, cycle, s) /\ coverage[s].attempt <= startedAt
               /\ Since(coverage', cycle, s) = Since(coverage, cycle, s)
    <3>1. coverage[s] # NoEntry
      BY <1>2, <2>1 DEF Rotation
    <3> QED
      BY <1>4, <2>1, <3>1 DEF Rotates, Since
  <2> QED
    BY <1>2, <1>4, <2>1, RotationCarried
<1>6. CrawlRotation'
  BY <1>5, CrawlBegins
<1> QED
  BY <1>1, <1>2, <1>5, <1>6 DEF RotationInv

LEMMA RotationFetch ==
  ASSUME TypeOK, TypeOK', QueueInv, OwnInv, CycleInv, AttemptInv, RotationInv,
         NEW outcome \in Outcome, Fetch(outcome)
  PROVE  RotationInv'
<1> DEFINE h == Head(queue)
<1>1. /\ Now \in Stamp /\ Now \in Nat /\ Now = clock + 1 /\ clock \in Nat
      /\ \A s \in Source : s # h => coverage'[s] = coverage[s]
      /\ h \in Source /\ coverage[h] \in Entry
      /\ coverage'[h] = Attempt(coverage[h], h, outcome)
      /\ \A i \in 1 .. Len(queue') : queue'[i] = queue[i + 1] /\ i + 1 \in 1 .. Len(queue)
  BY FetchedTypes
<1>2. /\ UNCHANGED <<file, cycle, startedAt, cache, cachedCycle, waits, pc>>
      /\ clock' = Now /\ pc = "crawl" /\ cycle \in CycleOrNone /\ waits \in [Source -> Nat]
      /\ coverage \in Coverage /\ startedAt \in Nat /\ startedAt <= clock
  BY ClockTypes DEF Fetch, cacheVars, TypeOK, OwnInv
<1>3. queue \in Seq(Source) /\ queue # << >> /\ queue' = Tail(queue)
  BY DEF TypeOK, Fetch
<1>4. coverage'[h].attempt = Now /\ coverage'[h] # NoEntry
  BY <1>1, <1>2, Attempted
<1> HIDE DEF h
<1>5. Rotation(cache, cachedCycle, waits, clock')
  <2>1. Rotation(cache, cachedCycle, waits, clock) /\ TriedBy(cache, clock)
    BY DEF RotationInv, AttemptInv
  <2> QED
    BY <1>2, <2>1, RotationCarried DEF TriedBy, Rotates
<1>6. Rotation(coverage, cycle, waits, startedAt) /\ Rotation(file, cycle, waits, startedAt) /\ CrawlRotation
  BY <1>2 DEF RotationInv
<1>7. ASSUME NEW s \in Source, Rotates(coverage', cycle, s), coverage'[s].attempt <= startedAt
      PROVE  /\ s # h /\ coverage'[s] = coverage[s] /\ Rotates(coverage, cycle, s)
             /\ Since(coverage', cycle, s) = Since(coverage, cycle, s)
             /\ \A t \in Mates(s) : coverage[t] # NoEntry /\ coverage[t].attempt > Since(coverage, cycle, s) =>
                  coverage'[t] # NoEntry /\ coverage'[t].attempt > Since(coverage, cycle, s)
             /\ h \in Mates(s) => h \in Served(coverage', cycle, s)
  <2>1. s # h
    BY <1>1, <1>2, <1>4, <1>7
  <2>2. coverage'[s] = coverage[s]
    BY <1>1, <2>1
  <2>3. Rotates(coverage, cycle, s) /\ Since(coverage', cycle, s) = Since(coverage, cycle, s)
    BY <1>7, <2>2 DEF Rotates, Since
  <2>4. Since(coverage, cycle, s) \in Nat /\ Since(coverage, cycle, s) <= clock
    <3>1. coverage[s].attempt \in Nat /\ coverage[s].attempt <= clock
      BY <1>2, <2>3, EntryTypes DEF AttemptInv, TriedBy, Rotates
    <3>2. cycle # NoCycle => cycle.begun \in Nat /\ cycle.begun <= clock
      BY <1>2, CycleTypes DEF CycleInv
    <3> QED
      BY <2>3, <3>1, <3>2 DEF Since, Rotates
  <2>5. coverage'[h] # NoEntry /\ coverage'[h].attempt > Since(coverage, cycle, s)
    BY <1>1, <1>4, <2>4
  <2>6. \A t \in Mates(s) : coverage[t] # NoEntry /\ coverage[t].attempt > Since(coverage, cycle, s) =>
          coverage'[t] # NoEntry /\ coverage'[t].attempt > Since(coverage, cycle, s)
    BY <1>1, <2>5 DEF Mates
  <2> QED
    BY <2>1, <2>2, <2>3, <2>5, <2>6 DEF Served
<1>8. Rotation(coverage', cycle, waits, startedAt)
  <2> SUFFICES ASSUME NEW s \in Source
               PROVE  /\ coverage'[s] = NoEntry => waits[s] = 0
                      /\ Rotates(coverage', cycle, s) /\ coverage'[s].attempt <= startedAt =>
                           Waiting(coverage', cycle, s, waits[s])
    BY DEF Rotation
  <2>1. coverage'[s] = NoEntry => waits[s] = 0
    BY <1>1, <1>4, <1>6 DEF Rotation
  <2>2. ASSUME Rotates(coverage', cycle, s), coverage'[s].attempt <= startedAt
        PROVE  Waiting(coverage', cycle, s, waits[s])
    <3>1. Waiting(coverage, cycle, s, waits[s]) /\ waits[s] \in Nat
      BY <1>2, <1>6, <1>7, <2>2 DEF Rotation
    <3> QED
      BY <1>7, <2>2, <3>1, WaitingStays
  <2> QED
    BY <2>1, <2>2
<1>9. \A s : InSeq(queue, s) => s = h \/ InSeq(queue', s)
  <2> SUFFICES ASSUME NEW i \in 1 .. Len(queue), queue[i] # h PROVE InSeq(queue', queue[i])
    BY DEF InSeq
  <2>0. i # 1
    BY DEF h
  <2>1. i - 1 \in 1 .. Len(queue') /\ queue'[i - 1] = queue[i]
    BY <1>3, <2>0, HeadTailProperties
  <2> QED
    BY <2>1 DEF InSeq
<1>10. CrawlRotation'
  <2> SUFFICES ASSUME NEW s \in Source, Rotates(coverage', cycle, s), coverage'[s].attempt <= startedAt,
                      ~InSeq(queue', s)
               PROVE  Share * (waits[s] + 1) <=
                        Cardinality(Served(coverage', cycle, s) \cup {t \in Mates(s) : InSeq(queue', t)})
    BY <1>2 DEF CrawlRotation, Served, Since
  <2> DEFINE Old == Served(coverage, cycle, s) \cup {t \in Mates(s) : InSeq(queue, t)}
             New == Served(coverage', cycle, s) \cup {t \in Mates(s) : InSeq(queue', t)}
  <2>1. Share * (waits[s] + 1) <= Cardinality(Old)
    BY <1>6, <1>7, <1>9 DEF CrawlRotation
  <2>2. Served(coverage, cycle, s) \subseteq Served(coverage', cycle, s)
    BY <1>7 DEF Served
  <2>3. Old \subseteq New
    BY <1>7, <1>9, <2>2
  <2>4. New \subseteq Mates(s) /\ Old \subseteq Mates(s)
    BY DEF Served
  <2>5. Share * (waits[s] + 1) \in Int
    BY <1>2, ShareType
  <2> HIDE DEF Old, New
  <2>6. Cardinality(Old) <= Cardinality(New) /\ Cardinality(Old) \in Nat /\ Cardinality(New) \in Nat
    BY <2>3, <2>4, MatesFinite, FS_Subset
  <2>7. Share * (waits[s] + 1) <= Cardinality(New)
    BY <2>1, <2>5, <2>6
  <2> QED
    BY <2>7 DEF New
<1> QED
  BY <1>2, <1>5, <1>6, <1>8, <1>10 DEF RotationInv

(* A run that ends after its whole queue adds one to the waits of those it *)
(* did not attempt, and has served a share of others.                      *)
LEMMA RotationFinish ==
  ASSUME TypeOK, TypeOK', QueueInv, AttemptInv, RotationInv, FinishRun
  PROVE  RotationInv'
<1>1. /\ pc \in {"crawl", "stopped"} /\ queue = << >> /\ file = coverage
      /\ SaveCache([s \in Source |-> Waited(s, pc = "crawl")])
      /\ pc' \in {"publish", "idle"}
  BY DEF FinishRun
<1>2. CASE UNCHANGED <<cache, cachedCycle, waits>>
  BY <1>1, <1>2, RotationIdle
<1>3. CASE /\ cache' = file /\ cachedCycle' = cycle
           /\ waits' = [s \in Source |-> Waited(s, pc = "crawl")]
  <2>1. Rotation(coverage, cycle, waits, startedAt) /\ (pc = "crawl" => CrawlRotation)
    BY <1>1 DEF RotationInv
  <2>2. /\ coverage \in Coverage /\ waits \in [Source -> Nat] /\ startedAt \in Nat
    BY ClockTypes DEF TypeOK
  <2>3. Rotation(coverage, cycle, waits', clock')
    <3> SUFFICES ASSUME NEW s \in Source
                 PROVE  /\ coverage[s] = NoEntry => waits'[s] = 0
                        /\ Rotates(coverage, cycle, s) => Waiting(coverage, cycle, s, waits'[s])
      BY DEF Rotation
    <3>1. waits'[s] = Waited(s, pc = "crawl")
      BY <1>3
    <3>2. coverage[s] = NoEntry => waits'[s] = 0
      BY <3>1 DEF Waited
    <3>3. CASE coverage[s] # NoEntry /\ coverage[s].attempt > startedAt
      <4>1. waits'[s] = 0
        <5>1. ~(coverage[s].attempt <= startedAt)
          BY <2>2, <3>3, EntryTypes
        <5> QED
          BY <3>1, <3>3, <5>1 DEF Waited
      <4> QED
        BY <3>3, <4>1, NoWait
    <3>4. CASE coverage[s] # NoEntry /\ ~(coverage[s].attempt > startedAt)
      <4>1. coverage[s].attempt <= startedAt
        BY <2>2, <3>4, EntryTypes
      <4>2. \/ waits'[s] = waits[s]
            \/ waits'[s] = waits[s] + 1 /\ pc = "crawl"
        BY <3>1, <3>4, <4>1 DEF Waited
      <4>3. CASE waits'[s] = waits[s]
        BY <2>1, <3>4, <4>1, <4>3 DEF Rotation
      <4>4. CASE waits'[s] = waits[s] + 1 /\ pc = "crawl"
        <5>1. \A u : ~InSeq(queue, u)
          BY <1>1, EmptyQueue DEF InSeq
        <5>2. Served(coverage, cycle, s) \cup {t \in Mates(s) : InSeq(queue, t)} = Served(coverage, cycle, s)
          BY <5>1
        <5> QED
          <6> SUFFICES ASSUME Rotates(coverage, cycle, s)
                       PROVE  Share * waits'[s] <= Cardinality(Served(coverage, cycle, s))
            BY <3>4 DEF Waiting
          <6>1. Share * (waits[s] + 1) <=
                  Cardinality(Served(coverage, cycle, s) \cup {t \in Mates(s) : InSeq(queue, t)})
            BY <2>1, <4>1, <4>4, <5>1 DEF CrawlRotation
          <6> QED
            BY <4>4, <5>2, <6>1
      <4> QED
        BY <3>4, <4>2, <4>3, <4>4
    <3> QED
      BY <3>2, <3>3, <3>4 DEF Rotates
  <2> QED
    BY <1>1, <1>3, <2>3 DEF RotationInv
<1> QED
  BY <1>1, <1>2, <1>3 DEF SaveCache

LEMMA RotationCrash ==
  ASSUME TypeOK, TypeOK', RotationInv, AttemptInv, CrashRun
  PROVE  RotationInv'
<1> DEFINE waited == [s \in Source |-> IF file[s] # NoEntry /\ file[s].attempt > startedAt THEN 0
                                      ELSE waits[s]]
<1>1. pc \in {"listing", "crawl", "stopped"} /\ pc' = "idle" /\ SaveCache(waited)
  BY DEF CrashRun
<1>2. CASE UNCHANGED <<cache, cachedCycle, waits>>
  BY <1>1, <1>2, RotationIdle
<1>3. CASE cache' = file /\ cachedCycle' = cycle /\ waits' = waited
  <2>1. Rotation(file, cycle, waits, startedAt)
    BY <1>1 DEF RotationInv
  <2>2. file \in Coverage /\ waits \in [Source -> Nat] /\ waits' \in [Source -> Nat] /\ startedAt \in Nat
    BY ClockTypes DEF TypeOK
  <2>3. \A s \in Source :
          /\ waits'[s] \in {waits[s], 0}
          /\ file[s] # NoEntry => waits'[s] = 0 \/ file[s].attempt <= startedAt
    BY <1>3, <2>2, EntryTypes
  <2>4. Rotation(file, cycle, waits', clock')
    BY <2>1, <2>2, <2>3, RotationCarried DEF Rotates
  <2> QED
    BY <1>1, <1>3, <2>4 DEF RotationInv
<1> QED
  BY <1>1, <1>2, <1>3 DEF SaveCache

LEMMA RotationKept ==
  ASSUME CollectorInv, CollectorInv', AttemptInv, AttemptInv', RotationInv, [Next]_vars
  PROVE  RotationInv'
<1> USE DEF CollectorInv
<1>1. ASSUME NEW id \in usage.cycles \cup {NoCycle}, Start(id) PROVE RotationInv'
  BY <1>1, UsedCycles, RotationStart
<1>2. ASSUME NEW checkpointOnly \in BOOLEAN, StartReplay(checkpointOnly) PROVE RotationInv'
  <2>1. UNCHANGED <<cache, cachedCycle, waits>> /\ pc' = "publish"
    BY <1>2 DEF StartReplay, cacheVars
  <2> QED
    BY <2>1, RotationIdle
<1>3. CASE Schedule
  BY <1>3, RotationSchedule
<1>4. CASE SaveCoverage
  <2>1. /\ UNCHANGED <<cache, cachedCycle, waits, clock, coverage, cycle, startedAt, pc, queue>>
        /\ file' = coverage /\ pc \in {"crawl", "stopped"}
    BY <1>4 DEF SaveCoverage, cacheVars
  <2>2. CrawlRotation' <=> CrawlRotation
    BY <2>1 DEF CrawlRotation
  <2>3. /\ Rotation(cache', cachedCycle', waits', clock')
        /\ Rotation(coverage', cycle', waits', startedAt') /\ Rotation(file', cycle', waits', startedAt')
    BY <2>1 DEF RotationInv
  <2> QED
    BY <2>1, <2>2, <2>3 DEF RotationInv
<1>5. CASE StopCrawl
  <2>1. /\ UNCHANGED <<cache, cachedCycle, waits, clock, file, coverage, cycle, startedAt>>
        /\ pc = "crawl" /\ pc' = "stopped"
    BY <1>5 DEF StopCrawl, cacheVars
  <2> QED
    BY <2>1 DEF RotationInv
<1>6. CASE FinishRun
  BY <1>6, RotationFinish
<1>7. CASE SaveCheckpoint
  <2>1. UNCHANGED <<cache, cachedCycle, waits>> /\ pc' \in {"published", "idle", "publish"}
    BY <1>7 DEF SaveCheckpoint, cacheVars, FailPublication
  <2> QED
    BY <2>1, RotationIdle
<1>8. ASSUME NEW outcome \in Outcome, Fetch(outcome) PROVE RotationInv'
  BY <1>8, RotationFetch
<1>9. ASSUME NEW s \in Source, SendPage(s) PROVE RotationInv'
  <2>1. UNCHANGED <<cache, cachedCycle, waits>> /\ pc' \in {"publish", "idle"}
    BY <1>9 DEF SendPage, cacheVars, FailPublication
  <2> QED
    BY <2>1, RotationIdle
<1>10. CASE CrashRun
  BY <1>10, RotationCrash
<1>11. CASE LoseRunner
  BY <1>11, RotationIdle DEF LoseRunner, cacheVars
<1>12. CASE EvictCache
  <2>1. \A s \in Source : cache'[s] = NoEntry /\ waits'[s] = 0
    BY <1>12 DEF EvictCache
  <2>2. Rotation(cache', cachedCycle', waits', clock')
    BY <2>1 DEF Rotation, Rotates
  <2> QED
    BY <1>12, <2>2 DEF EvictCache, RotationInv
<1>13. CASE Pause
  BY <1>13, RotationIdle DEF Pause, cacheVars
<1>14. CASE UNCHANGED vars
  BY <1>14 DEF vars, cacheVars, jobVars, RotationInv, CrawlRotation
<1> QED
  BY <1>1, <1>2, <1>3, <1>4, <1>5, <1>6, <1>7, <1>8, <1>9, <1>10, <1>11, <1>12, <1>13, <1>14 DEF Next

(* Full runs that are saved attempt every active page, and every retired   *)
(* one that a cycle has not seen, in turn: before a page has waited for    *)
(* more than Bound of them, all others of its provider had their turn.     *)
THEOREM PagesTakeTurns == Spec => []ActivePagesRotate
<1>1. Init => AttemptInv /\ RotationInv
  BY DEF Init, AttemptInv, TriedBy, UnseenBefore, RotationInv, Rotation, Rotates
<1>2. CollectorInv /\ CollectorInv' /\ AttemptInv /\ RotationInv /\ [Next]_vars => AttemptInv' /\ RotationInv'
  BY AttemptKept, RotationKept DEF CollectorInv
<1>3. CollectorInv /\ AttemptInv /\ RotationInv => ActivePagesRotate
  <2> SUFFICES ASSUME CollectorInv, AttemptInv, RotationInv, NEW s \in Source, cache[s] # NoEntry,
                      cache[s].retired = 0 \/ (cachedCycle # NoCycle /\ cache[s].seen # cachedCycle.id)
               PROVE  waits[s] <= Bound(s)
    BY DEF ActivePagesRotate
  <2> DEFINE All == {t \in Source : ProviderOf[t] = ProviderOf[s]}
             W == Served(cache, cachedCycle, s)
  <2>1. Waiting(cache, cachedCycle, s, waits[s])
    BY DEF RotationInv, AttemptInv, TriedBy, Rotation, Rotates
  <2>2. IsFiniteSet(All) /\ Cardinality(All) \in Nat /\ Cardinality(All \ {s}) = Cardinality(All) - 1
    <3>1. All \in SUBSET Source /\ s \in All
      OBVIOUS
    <3> HIDE DEF All
    <3> QED
      BY <3>1, Constants, FS_Subset, FS_CardinalityType, FS_RemoveElement
  <2>3. Cardinality(W) <= Cardinality(All) - 1 /\ Cardinality(W) \in Nat
    <3>1. IsFiniteSet(All \ {s}) /\ W \subseteq All \ {s}
      BY <2>2, FS_RemoveElement, ServedTypes DEF Mates
    <3> QED
      BY <2>2, <3>1, FS_Subset, ServedTypes
  <2>4. waits[s] \in Nat /\ Share \in Nat /\ Share > 0
    BY ShareType DEF CollectorInv, TypeOK
  <2>5. \A n \in Nat, m \in Nat, k \in Nat : k > 0 /\ k * m <= n => m <= n \div k
    OBVIOUS
  <2>6. Share * waits[s] <= Cardinality(All) - 1 /\ Cardinality(All) - 1 \in Nat
    <3>1. Share * waits[s] <= Cardinality(W)
      BY <2>1 DEF Waiting
    <3>2. Share * waits[s] \in Nat
      BY <2>4
    <3> HIDE DEF All, W
    <3> QED
      BY <2>2, <2>3, <3>1, <3>2
  <2>7. Bound(s) = (Cardinality(All) - 1) \div Share
    BY DEF Bound, Share
  <2> HIDE DEF All, W
  <2> QED
    BY <2>4, <2>5, <2>6, <2>7
<1> QED
  BY <1>1, <1>2, <1>3, InitEstablishes, StepPreserves, PTL DEF Spec
=============================================================================
