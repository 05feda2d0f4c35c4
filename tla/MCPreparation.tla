--------------------------- MODULE MCPreparation ---------------------------
(***************************************************************************)
(* The pipeline on two sessions and four offers, one of which no source    *)
(* knows at first; one page lists an offer of each session.                *)
(* Each scenario is a small deployment with the input that makes one kind  *)
(* of race happen.                                                         *)
(***************************************************************************)
EXTENDS PageReceipts

CONSTANTS s1, s2, o1, o2, o3, o4, b1, b2, w1, w2

Rev(offer, updated, observed, body, facts) ==
    [offer |-> offer, updated |-> updated, observed |-> observed,
     body |-> body, facts |-> facts]

Legacy(o) == Rev(o, 0, 0, "A", "legacy")

MCOffer == {o1, o2, o3, o4}

MCSessionOf == [o \in MCOffer |-> IF o \in {o3, o4} THEN s2 ELSE s1]

MCUrlOf == [o \in MCOffer |-> CASE o \in {o1, o3} -> "u1" [] o = o2 -> "u2" [] o = o4 -> "u4"]

\* One provider lists o1 and o3, and later o4 in the session of o3.
MCProviderOf == [o \in MCOffer |-> IF o = o2 THEN "y" ELSE "x"]

MCFirstHead == {[o \in MCOffer |-> IF o = o4 THEN NoRevision ELSE Legacy(o)]}

\* Offer records: A -> B -> A on o1, a late clocked pair on o3.
O1b == Rev(o1, 0, 1, "B", "legacy")
O1a == Rev(o1, 0, 2, "A", "legacy")
O3b == Rev(o3, 1, 2, "B", "legacy")
O3c == Rev(o3, 1, 1, "B", "legacy")
O2b == Rev(o2, 0, 1, "B", "legacy")
O2off == Rev(o2, 0, 1, "S", "canceled")
O2on == Rev(o2, 0, 2, "B", "legacy")

\* Canonical observations: new terms, a correction, a contradiction, a cancel.
C1t == Rev(o1, 0, 1, "C", "legacy")
C2t == Rev(o2, 0, 1, "C", "legacy")
C3t == Rev(o3, 0, 1, "C", "legacy")
C1x == Rev(o1, 0, 2, "D", "moved")
C2x == Rev(o2, 0, 2, "D", "moved")
C1n == Rev(o1, 0, 2, "E", "canceled")
C3n == Rev(o3, 0, 2, "E", "canceled")
C4t == Rev(o4, 0, 1, "C", "legacy")
C4m == Rev(o4, 0, 2, "D", "moved")
Bad == Rev(o3, 0, 3, "F", "legacy")

MCObservation == {C1t, C2t, C3t, C1x, C2x, C1n, C3n, C4t, C4m, Bad}

MCRevision == {Legacy(o) : o \in {o1, o2, o3}} \cup {O1b, O1a, O3b, O3c, O2b, O2off, O2on}
              \cup MCObservation

Scenario(offers, observed, first, second, atW1, atW2, enqueues, failures) ==
    [offers |-> offers, canonical |-> observed,
     batches |-> [b \in {b1, b2} |-> IF b = b1 THEN first ELSE second],
     serves |-> [w \in {w1, w2} |-> IF w = w1 THEN atW1 ELSE atW2],
     enqueues |-> enqueues, faults |-> failures,
     pages |-> [b \in {b1, b2} |-> {}], full |-> {},
     scope |-> [b \in {b1, b2} |-> [providers |-> {"x", "y"},
                                    horizon |-> {"legacy", "moved"}]]]

PageScenario(offers, observed, first, second, full, failures) ==
    [Scenario(offers, observed, UNION {p.records : p \in first},
              UNION {p.records : p \in second}, {"batch"}, {"batch"}, FALSE, failures)
     EXCEPT !.pages = [b \in {b1, b2} |-> IF b = b1 THEN first ELSE second],
            !.full = full]

\* Pages: of both URLs at time 1, the first one once more as recovered, and
\* what followed: withdrawn, in doubt, with a moved or a canceled session.
SourcePage(url, observed, status, current, records) ==
    [url |-> url, observed |-> observed, status |-> status,
     current |-> current, records |-> records]

P1 == SourcePage("u1", 1, "verified", TRUE, {C1t, C3t})
P1again == SourcePage("u1", 1, "verified", FALSE, {C1t, C3t})
P2 == SourcePage("u2", 1, "verified", TRUE, {C2t})
P1gone == SourcePage("u1", 2, "retired", TRUE, {})
P1odd == SourcePage("u1", 2, "quarantined", TRUE, {})
P1less == SourcePage("u1", 2, "verified", TRUE, {C3n})
P2gone == SourcePage("u2", 2, "retired", TRUE, {})
P2moved == SourcePage("u2", 2, "verified", TRUE, {C2x})

P1moved == SourcePage("u1", 2, "verified", TRUE, {C1x})
P1last == SourcePage("u1", 3, "retired", TRUE, {})
P1bad == SourcePage("u1", 3, "verified", TRUE, {Bad})

MCPage == {P1bad, P1moved, P1last, P1, P1again, P2, P1gone, P1odd, P1less, P2gone, P2moved}

MCInvalid == {Bad}

Notices == {"event", "request"}

\* Two refresh consumers race each other, a late record and a failure.
Refreshes == Scenario({O1b, O1a, O3b}, {}, {}, {}, Notices, {"request"}, FALSE, 1)

\* Corrections of one session by two providers, one of them contradicted first.
Corrections == Scenario({}, {C1x, C2t, C2x}, {}, {}, Notices, {"base"}, FALSE, 0)

\* Records of one offer that arrive out of order, clocked and not.
LateRecords == Scenario({O1b, O1a, O3b, O3c}, {}, {}, {}, {"event"}, {"request"}, FALSE, 0)

\* A cancellation beside a refresh of the other session: contradicted by another
\* provider, or with a failure.
Cancellation == Scenario({O3b}, {C1n, C2t}, {}, {}, Notices, {"base"}, FALSE, 0)
FailingCancellation == Scenario({O3b}, {C1n}, {}, {}, Notices, {"base"}, FALSE, 1)

\* A batch over both sessions, a direct record of one of them, a second batch.
BatchBesideRefresh == Scenario({O2b}, {}, {C1t, C3t}, {C1x, C2x}, Notices, {"batch"}, FALSE, 1)

\* Two batches that replay one request, with a failure or a cancellation.
Replays == Scenario({}, {}, {C1t, C3t}, {C1t, C3n}, {"batch"}, {"batch"}, FALSE, 1)

\* A record no adapter accepts and one that contradicts another block their
\* batch; the operator cancels it and the next batch replays one of them.
Blocked == Scenario({}, {}, {C1t, C2x, Bad}, {C2x, C3t}, Notices, {"batch"}, FALSE, 1)

\* The per-record publisher of 005 beside a batch of the same request, and a
\* cancellation that overtakes both.
TwoPublishers == Scenario({}, {C3t, C3n}, {C1t, C3t}, {}, {"base"}, {"batch"}, FALSE, 1)

\* catalog:work: derivations and events, jobs of frozen offers enqueued.
Derivations == Scenario({O1a}, {}, {}, {}, {"derive", "event"}, {}, TRUE, 1)

\* A full batch of the first page, which needs the offer of the second to be
\* sold out, beside sources that find another offer and this one on sale again;
\* with a failure, or an expiry of the batch.
FullCycle == PageScenario({O2off, O2on}, {C4t}, {P1}, {}, {b1}, 1)

\* The next batch finds the first page withdrawn; one offer gets new terms.
Withdrawn == PageScenario({O2b}, {}, {P1, P2}, {P1gone}, {}, 0)

\* The older page comes second; the first batch may be canceled.
LatePage == PageScenario({}, {}, {P1gone}, {P1, P2}, {}, 1)

\* The same page comes again as recovered.
Recovered == PageScenario({}, {}, {P1}, {P1again}, {}, 0)

\* The page is in doubt, and the operator may cancel its batch.
InDoubt == PageScenario({}, {}, {P1, P2}, {P1odd}, {}, 1)

\* A full batch after which nothing is on sale: a session is canceled on the
\* page that no longer lists the other, the second page is withdrawn.
FewerSessions == PageScenario({}, {}, {P1, P2}, {P1less, P2gone}, {b2}, 0)

\* One provider moves a session that another one sells, too; a direct record
\* does the same.
Moved == PageScenario({}, {C1x}, {P1, P2}, {P2moved}, {}, 0)

\* The page lists a record no adapter accepts.
Unreadable == PageScenario({}, {}, {P1bad}, {P2}, {}, 0)

\* A full batch of one provider owes nothing of the other's offer, which a
\* direct record changes.
OneProvider ==
    [PageScenario({O2b}, {}, {P1}, {}, {b1}, 0)
     EXCEPT !.scope[b1].providers = {"x"}]

\* The first batch moves a session out of the horizon of the second, full one.
BeyondHorizon ==
    [PageScenario({}, {}, {P1moved, P2moved}, {P1last}, {b2}, 0)
     EXCEPT !.scope[b2].horizon = {"legacy"}]

\* Two listings of one provider for one session: each may contradict the other
\* in time, late or at once.
TwoListings == Scenario({}, {C3n, C4t, C4m}, {}, {}, Notices, {"base"}, FALSE, 0)

MCDeployment == {Refreshes, LateRecords, Corrections, Cancellation,
                 FailingCancellation, BatchBesideRefresh, Replays, Blocked,
                 TwoPublishers, Derivations,
                 FullCycle, Withdrawn, LatePage, Recovered, InDoubt, FewerSessions, Moved,
                 Unreadable, OneProvider, BeyondHorizon, TwoListings}
=============================================================================
