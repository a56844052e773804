------------------------------ MODULE MCEvents ------------------------------
(* A type with a published price from 1 to 3 of its 0 to 3, two private    *)
(* artists of an organization and a venue that is nobody's; requests about *)
(* types, the event, its line-up and a stage, or artists, venues, stages.  *)
EXTENDS Events, TLC
CONSTANTS t1, t2, r1, r2, r3, a1, a2, v1, v2, s1, s2, o1, o2, root, p1, p2
Offer(from, to, price, box) == [from |-> from, to |-> to, price |-> price, box |-> box]
MCFirstPeriod == [from |-> 0, to |-> 3, price |-> 3]
MCFirstOffer == Offer(1, 3, 2, FALSE)
MCOffers == {Offer(0, 2, 1, FALSE), Offer(1, 3, 4, FALSE), Offer(1, 2, 5, TRUE)}
MCNewPeriods == {[from |-> 0, to |-> 2, price |-> 6]}
Change(from, to, price) == [from |-> from, to |-> to, price |-> price]
MCTypeChanges == {Change(Null, Null, Null), Change(2, Null, Null), Change(Null, 2, 1)}
MCEventChanges ==
    {[date |-> d, image |-> Null, venue |-> Null] : d \in BOOLEAN}
        \cup {[date |-> Null, image |-> i, venue |-> TRUE] : i \in BOOLEAN}
Start(about, date, image, venue, hasKey) ==
    [about |-> about, date |-> date, image |-> image, venue |-> venue, key |-> hasKey]
Pair(about, third) == [r \in Requests |-> IF r = r3 THEN third ELSE about]
MCStarts ==
    {Start(Pair("type", "nothing"), FALSE, FALSE, FALSE, TRUE),
     Start(Pair("event", "nothing"), FALSE, TRUE, TRUE, TRUE),
     Start([r \in Requests |-> "event"], TRUE, FALSE, FALSE, FALSE),
     Start(Pair("lineup", "stage"), FALSE, FALSE, FALSE, TRUE),
     Start(Pair("place", "stage"), FALSE, FALSE, FALSE, TRUE),
     Start([r \in Requests |-> "place"], FALSE, FALSE, FALSE, TRUE)}
MCFirstEntry ==
    [x \in Artists \cup Venues |->
        IF x \in Artists THEN [org |-> o1, private |-> TRUE, editor |-> root]
        ELSE IF x = v1 THEN [org |-> Null, private |-> FALSE, editor |-> root]
        ELSE Null]
MCFirstStage == [s \in Stages |-> IF s = s1 THEN v1 ELSE Null]
MCMembers == {<<p1, o1>>, <<p2, o2>>}
MCSymmetry == Permutations({r1, r2}) \cup Permutations(Artists)
=============================================================================
