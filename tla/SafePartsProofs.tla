-------------------------- MODULE SafePartsProofs --------------------------
(***************************************************************************)
(* Theorems about the hub's parts composed in SafeParts: the login and the *)
(* synchronisation of the network client for any number of overlapping     *)
(* calls, friends and groups; the path from Zalo's page to the queue for   *)
(* any number of messages, scans, sessions and documents; the normaliser   *)
(* for every message and every time of day.  (The clocks and the gate of   *)
(* the client have proofs of their own.)                                   *)
(***************************************************************************)
EXTENDS SafeParts, FiniteSetTheorems, WellFoundedInduction, TLAPS

-----------------------------------------------------------------------------
(***************************************************************************)
(* The login of the network client.                                        *)
(***************************************************************************)

LoginTypeOK ==
    /\ api \in BOOLEAN /\ isConnecting \in BOOLEAN
    /\ attempt \in [Attempts -> {"none", "cookies", "imei", "login", "profile"}]
    /\ started \in {0, 1} /\ intervals \in {0, 1}

\* A call that is under way holds the flag, and no other call is under way.
OneAttempt ==
    \A a \in Attempts : attempt[a] # "none" =>
        /\ isConnecting
        /\ \A b \in Attempts : attempt[b] # "none" => a = b

\* The listener is started at most once, between the login and the end of its
\* call.
ListenerFollowsLogin ==
    /\ ~api => started = 0
    /\ \A a \in Attempts :
          /\ attempt[a] \in {"cookies", "imei", "login"} => ~api
          /\ attempt[a] = "profile" => api /\ started = 0

LoginInv == LoginTypeOK /\ OneAttempt /\ ListenerFollowsLogin

\* The steps of a login call, and the steps that leave the login alone.
LEMMA LoginStep ==
    ASSUME LoginInv, LoginNext
    PROVE  LoginInv'
<1> USE DEF LoginInv, LoginTypeOK, OneAttempt, ListenerFollowsLogin
<1>1. ASSUME NEW a \in Attempts, SessionCheck(a) PROVE LoginInv'
  BY <1>1 DEF SessionCheck
<1>2. ASSUME NEW a \in Attempts, NoSessionYet(a) PROVE LoginInv'
  BY <1>2 DEF NoSessionYet
<1>3. ASSUME NEW a \in Attempts, CookiesFound(a) PROVE LoginInv'
  BY <1>3 DEF CookiesFound
<1>4. ASSUME NEW a \in Attempts, ImeiRead(a) PROVE LoginInv'
  BY <1>4 DEF ImeiRead
<1>5. ASSUME NEW a \in Attempts, LoginThrows(a) PROVE LoginInv'
  BY <1>5 DEF LoginThrows
<1>6. ASSUME NEW a \in Attempts, LoggedIn(a) PROVE LoginInv'
  BY <1>6 DEF LoggedIn
<1>7. ASSUME NEW a \in Attempts, ProfileRead(a) PROVE LoginInv'
  <2>1. /\ attempt[a] = "profile" /\ api
        /\ started' \in {started, started + 1} /\ intervals' = 1
        /\ isConnecting' = FALSE /\ api' = api
        /\ attempt' = [attempt EXCEPT ![a] = "none"]
    BY <1>7 DEF ProfileRead, SetupNetworkListener
  <2>2. started' \in {0, 1}
    BY <2>1
  <2>3. \A b \in Attempts : attempt'[b] = "none"
    BY <2>1
  <2> QED
    BY <2>1, <2>2, <2>3
<1>8. CASE BrowserSession
  BY <1>8 DEF BrowserSession
<1>9. ASSUME NEW y \in Syncs, SyncCalled(y) \/ SyncStep(y) PROVE LoginInv'
  <2>1. UNCHANGED <<api, isConnecting, attempt, started, intervals>>
    BY <1>9 DEF SyncCalled, SyncStep, FriendsFetched, GroupsFetched, GroupInfo,
                SyncReturns
  <2> QED
    BY <2>1
<1> QED
  BY <1>1, <1>2, <1>3, <1>4, <1>5, <1>6, <1>7, <1>8, <1>9
     DEF LoginNext, AttemptGoesOn

LEMMA LoginInvariant == PartsSpec => []LoginInv
<1>1. PartsInit => LoginInv
  BY DEF PartsInit, LoginInit, LoginInv, LoginTypeOK, OneAttempt,
         ListenerFollowsLogin
<1>2. LoginInv /\ [PartsNext]_partsVars => LoginInv'
  <2> SUFFICES ASSUME LoginInv, [PartsNext]_partsVars PROVE LoginInv'
    OBVIOUS
  <2>1. LoginNext \/ UNCHANGED loginVars
    BY DEF PartsNext, partsVars
  <2>2. CASE UNCHANGED loginVars
    BY <2>2 DEF loginVars, LoginInv, LoginTypeOK, OneAttempt, ListenerFollowsLogin
  <2> QED
    BY <2>1, <2>2, LoginStep
<1> QED
  BY <1>1, <1>2, PTL DEF PartsSpec

\* Every step of a call either goes on to a later await or gives the flag back;
\* a call that is thrown out or returns early has not set the api.
LEMMA LoginAccountedStep ==
    ASSUME LoginInv, LoginAccounted, LoginNext
    PROVE  LoginAccounted'
<1> USE DEF LoginInv, LoginTypeOK, OneAttempt, ListenerFollowsLogin, LoginAccounted
<1>1. ASSUME NEW a \in Attempts, SessionCheck(a) PROVE LoginAccounted'
  BY <1>1 DEF SessionCheck
<1>2. ASSUME NEW a \in Attempts, NoSessionYet(a) PROVE LoginAccounted'
  BY <1>2 DEF NoSessionYet
<1>3. ASSUME NEW a \in Attempts, CookiesFound(a) PROVE LoginAccounted'
  BY <1>3 DEF CookiesFound
<1>4. ASSUME NEW a \in Attempts, ImeiRead(a) PROVE LoginAccounted'
  BY <1>4 DEF ImeiRead
<1>5. ASSUME NEW a \in Attempts, LoginThrows(a) PROVE LoginAccounted'
  BY <1>5 DEF LoginThrows
<1>6. ASSUME NEW a \in Attempts, LoggedIn(a) PROVE LoginAccounted'
  BY <1>6 DEF LoggedIn
<1>7. ASSUME NEW a \in Attempts, ProfileRead(a) PROVE LoginAccounted'
  <2>1. attempt[a] = "profile" /\ isConnecting' = FALSE /\ intervals' = 1
        /\ started' \in {started, started + 1}
    BY <1>7 DEF ProfileRead, SetupNetworkListener
  <2>2. started = 0
    BY <2>1
  <2>3. started' <= 1 /\ intervals' <= 1
    BY <2>1, <2>2
  <2> QED
    BY <2>1, <2>3
<1>8. CASE BrowserSession
  BY <1>8 DEF BrowserSession
<1>9. ASSUME NEW y \in Syncs, SyncCalled(y) \/ SyncStep(y) PROVE LoginAccounted'
  <2>1. UNCHANGED <<api, isConnecting, attempt, started, intervals>>
    BY <1>9 DEF SyncCalled, SyncStep, FriendsFetched, GroupsFetched, GroupInfo,
                SyncReturns
  <2> QED
    BY <2>1
<1> QED
  BY <1>1, <1>2, <1>3, <1>4, <1>5, <1>6, <1>7, <1>8, <1>9
     DEF LoginNext, AttemptGoesOn

\* Whatever logins the timer starts, and wherever they fail, one realtime
\* listener and one interval run, so the messages that the listener hears are
\* not handled twice; the flag a call holds is given back; and a client that is
\* ready has its interval or a call that is about to start it
\* (initFromBrowserSession of zalo_network_client.ts).
THEOREM LoginAccountedHolds == PartsSpec => []LoginAccounted
<1>1. PartsInit => LoginAccounted
  BY DEF PartsInit, LoginInit, LoginAccounted
<1>2. LoginInv /\ LoginAccounted /\ [PartsNext]_partsVars => LoginAccounted'
  <2> SUFFICES ASSUME LoginInv, LoginAccounted, [PartsNext]_partsVars
               PROVE  LoginAccounted'
    OBVIOUS
  <2>1. LoginNext \/ UNCHANGED loginVars
    BY DEF PartsNext, partsVars
  <2>2. CASE UNCHANGED loginVars
    BY <2>2 DEF loginVars, LoginAccounted
  <2> QED
    BY <2>1, <2>2, LoginAccountedStep
<1> QED
  BY <1>1, <1>2, LoginInvariant, PTL DEF PartsSpec

-----------------------------------------------------------------------------
(***************************************************************************)
(* The synchronisation of friends and groups.                              *)
(***************************************************************************)
Call == [at : {"idle", "friends", "groups", "info"}, left : SUBSET Groups,
         failed : SUBSET (Friends \cup Groups), done : BOOLEAN]

SyncTypeOK == sync \in [Syncs -> Call]

\* What a call has asked for and got so far is in the table; what it has still
\* to ask for and what failed need not be.
Progress(s, table) ==
    /\ s.done => s.at = "idle"
    /\ s.at = "groups" => Friends \ s.failed \subseteq table
    /\ s.at = "info"   => (Friends \cup Groups) \ (s.failed \cup s.left) \subseteq table
    /\ s.done          => (Friends \cup Groups) \ s.failed \subseteq table

SyncInv == SyncTypeOK /\ \A y \in Syncs : Progress(sync[y], listed)

\* One call takes a step; the table does not lose a row, so that the others'
\* progress stays.
LEMMA OneSync ==
    ASSUME SyncInv, NEW y \in Syncs, sync' \in [Syncs -> Call],
           \A z \in Syncs : z # y => sync'[z] = sync[z],
           listed \subseteq listed', Progress(sync'[y], listed')
    PROVE  SyncInv'
<1>1. ASSUME NEW z \in Syncs, z # y PROVE Progress(sync'[z], listed')
  <2>1. sync'[z] = sync[z] /\ Progress(sync[z], listed)
    BY <1>1 DEF SyncInv
  <2> QED
    BY <2>1 DEF Progress
<1> QED
  BY <1>1 DEF SyncInv, SyncTypeOK

\* A new call has everything still to ask for.
LEMMA StartSyncInv ==
    ASSUME SyncInv, NEW y \in Syncs, StartSync(y), listed' = listed
    PROVE  SyncInv'
<1> DEFINE s == [NoSync EXCEPT !.at = "friends"]
<1>1. s \in Call /\ s.at = "friends" /\ ~ s.done
  BY DEF NoSync, Call
<1>2. sync' = [sync EXCEPT ![y] = s]
  BY DEF StartSync
<1> HIDE DEF s
<1>3. sync' \in [Syncs -> Call] /\ sync'[y] = s
  BY <1>1, <1>2 DEF SyncInv, SyncTypeOK
<1>4. \A z \in Syncs : z # y => sync'[z] = sync[z]
  BY <1>2 DEF SyncInv, SyncTypeOK
<1>5. Progress(sync'[y], listed')
  BY <1>1, <1>3 DEF Progress
<1> QED
  BY <1>3, <1>4, <1>5, OneSync

LEMMA SyncStepInv ==
    ASSUME SyncInv, LoginNext
    PROVE  SyncInv'
<1>0. /\ sync \in [Syncs -> Call]
      /\ \A y \in Syncs : sync[y] \in Call /\ Progress(sync[y], listed)
  BY DEF SyncInv, SyncTypeOK
<1>1. ASSUME NEW y \in Syncs, NEW ok \in BOOLEAN, FriendsFetched(y, ok)
      PROVE  SyncInv'
  <2>1. sync' \in [Syncs -> Call] /\ \A z \in Syncs : z # y => sync'[z] = sync[z]
    <3> DEFINE s == [sync[y] EXCEPT !.at = "groups", !.failed = IF ok THEN {} ELSE Friends]
    <3>1. s \in Call
      <4>1. CASE ok
        BY <1>0, <4>1 DEF Call
      <4>2. CASE ~ ok
        BY <1>0, <4>2 DEF Call
      <4> QED
        BY <4>1, <4>2
    <3>2. sync' = [sync EXCEPT ![y] = s]
      BY <1>0, <1>1 DEF FriendsFetched
    <3> HIDE DEF s
    <3> QED
      BY <1>0, <3>1, <3>2
  <2>2. /\ sync'[y].at = "groups" /\ sync'[y].done = sync[y].done
        /\ sync'[y].failed = IF ok THEN {} ELSE Friends
    BY <1>0, <1>1 DEF FriendsFetched, Call
  <2>3. listed \subseteq listed' /\ (ok => Friends \subseteq listed')
    BY <1>1 DEF FriendsFetched
  <2>4. ~ sync[y].done
    BY <1>0, <1>1 DEF FriendsFetched, Progress
  <2>5. Progress(sync'[y], listed')
    BY <2>2, <2>3, <2>4 DEF Progress
  <2> QED
    BY <2>1, <2>3, <2>5, OneSync
<1>2. ASSUME NEW y \in Syncs, NEW ok \in BOOLEAN, GroupsFetched(y, ok)
      PROVE  SyncInv'
  <2>1. sync' \in [Syncs -> Call] /\ \A z \in Syncs : z # y => sync'[z] = sync[z]
    <3> DEFINE s == [sync[y] EXCEPT !.at = "info",
                                    !.left = IF ok THEN Groups ELSE {},
                                    !.failed = IF ok THEN @ ELSE @ \cup Groups]
    <3>1. s \in Call
      <4>1. CASE ok
        BY <1>0, <4>1 DEF Call
      <4>2. CASE ~ ok
        BY <1>0, <4>2 DEF Call
      <4> QED
        BY <4>1, <4>2
    <3>2. sync' = [sync EXCEPT ![y] = s]
      BY <1>0, <1>2 DEF GroupsFetched
    <3> HIDE DEF s
    <3> QED
      BY <1>0, <3>1, <3>2
  <2>2. /\ sync'[y].at = "info" /\ sync'[y].done = sync[y].done
        /\ sync'[y].left = IF ok THEN Groups ELSE {}
        /\ sync'[y].failed = IF ok THEN sync[y].failed ELSE sync[y].failed \cup Groups
    BY <1>0, <1>2 DEF GroupsFetched, Call
  <2>3. listed' = listed /\ ~ sync[y].done /\ Friends \ sync[y].failed \subseteq listed
    BY <1>0, <1>2 DEF GroupsFetched, Progress
  <2>4. (Friends \cup Groups) \ (sync'[y].failed \cup sync'[y].left) \subseteq listed
    BY <2>2, <2>3
  <2>5. Progress(sync'[y], listed')
    BY <2>2, <2>3, <2>4 DEF Progress
  <2> QED
    BY <2>1, <2>3, <2>5, OneSync
<1>3. ASSUME NEW y \in Syncs, NEW g \in Groups, NEW ok \in BOOLEAN, GroupInfo(y, g, ok)
      PROVE  SyncInv'
  <2>1. sync' \in [Syncs -> Call] /\ \A z \in Syncs : z # y => sync'[z] = sync[z]
    <3> DEFINE s == [sync[y] EXCEPT !.left = @ \ {g},
                                    !.failed = IF ok THEN @ ELSE @ \cup {g}]
    <3>1. s \in Call
      <4>1. CASE ok
        BY <1>0, <4>1 DEF Call
      <4>2. CASE ~ ok
        BY <1>0, <4>2 DEF Call
      <4> QED
        BY <4>1, <4>2
    <3>2. sync' = [sync EXCEPT ![y] = s]
      BY <1>0, <1>3 DEF GroupInfo
    <3> HIDE DEF s
    <3> QED
      BY <1>0, <3>1, <3>2
  <2>2. /\ sync'[y].at = "info" /\ sync'[y].done = sync[y].done
        /\ sync'[y].left = sync[y].left \ {g}
        /\ sync'[y].failed = IF ok THEN sync[y].failed ELSE sync[y].failed \cup {g}
    BY <1>0, <1>3 DEF GroupInfo, Call
  <2>3. /\ listed \subseteq listed' /\ (ok => g \in listed')
        /\ ~ sync[y].done
        /\ (Friends \cup Groups) \ (sync[y].failed \cup sync[y].left) \subseteq listed
    BY <1>0, <1>3 DEF GroupInfo, Progress
  <2>4. (Friends \cup Groups) \ (sync'[y].failed \cup sync'[y].left) \subseteq listed'
    BY <2>2, <2>3
  <2>5. Progress(sync'[y], listed')
    BY <2>2, <2>3, <2>4 DEF Progress
  <2> QED
    BY <2>1, <2>3, <2>5, OneSync
<1>4. ASSUME NEW y \in Syncs, SyncReturns(y) PROVE SyncInv'
  <2>1. sync' \in [Syncs -> Call] /\ \A z \in Syncs : z # y => sync'[z] = sync[z]
    BY <1>0, <1>4 DEF SyncReturns, Call
  <2>2. sync'[y].at = "idle" /\ sync'[y].failed = sync[y].failed
    BY <1>0, <1>4 DEF SyncReturns, Call
  <2>3. /\ listed' = listed
        /\ (Friends \cup Groups) \ sync[y].failed \subseteq listed
    BY <1>0, <1>4 DEF SyncReturns, Progress
  <2>4. Progress(sync'[y], listed')
    BY <2>2, <2>3 DEF Progress
  <2> QED
    BY <2>1, <2>3, <2>4, OneSync
<1>5. ASSUME NEW y \in Syncs, SyncCalled(y) PROVE SyncInv'
  BY <1>5, StartSyncInv DEF SyncCalled
<1>6. ASSUME NEW a \in Attempts, ProfileRead(a) PROVE SyncInv'
  BY <1>6, StartSyncInv DEF ProfileRead
<1>7. CASE UNCHANGED <<sync, listed>>
  BY <1>7 DEF SyncInv, SyncTypeOK, Progress
<1>8. CASE \/ BrowserSession
           \/ \E a \in Attempts : \/ SessionCheck(a) \/ NoSessionYet(a)
                                  \/ CookiesFound(a) \/ ImeiRead(a)
                                  \/ LoginThrows(a) \/ LoggedIn(a)
  BY <1>7, <1>8 DEF BrowserSession, SessionCheck, NoSessionYet, CookiesFound,
                    ImeiRead, LoginThrows, LoggedIn
<1> QED
  BY <1>1, <1>2, <1>3, <1>4, <1>5, <1>6, <1>8
     DEF LoginNext, AttemptGoesOn, SyncStep

\* A failed request of syncNetworkData costs the friends or the group that it
\* asked for and nothing else, for any number of them and of overlapping calls.
THEOREM SyncKeepsGoingHolds == PartsSpec => []SyncKeepsGoing
<1>1. PartsInit => SyncInv
  <2> SUFFICES ASSUME LoginInit PROVE SyncInv
    BY DEF PartsInit
  <2>1. NoSync \in Call /\ ~ NoSync.done /\ NoSync.at = "idle"
    BY DEF NoSync, Call
  <2> QED
    BY <2>1 DEF LoginInit, SyncInv, SyncTypeOK, Progress
<1>2. SyncInv /\ [PartsNext]_partsVars => SyncInv'
  <2> SUFFICES ASSUME SyncInv, [PartsNext]_partsVars PROVE SyncInv'
    OBVIOUS
  <2>1. LoginNext \/ UNCHANGED loginVars
    BY DEF PartsNext, partsVars
  <2>2. CASE UNCHANGED loginVars
    BY <2>2 DEF loginVars, SyncInv, SyncTypeOK, Progress
  <2> QED
    BY <2>1, <2>2, SyncStepInv
<1>3. SyncInv => SyncKeepsGoing
  BY DEF SyncInv, Progress, SyncKeepsGoing
<1> QED
  BY <1>1, <1>2, <1>3, PTL DEF PartsSpec
-----------------------------------------------------------------------------
(***************************************************************************)
(* The normaliser's clock.                                                 *)
(***************************************************************************)
NormInv ==
    text \in Seq(Pieces) /\ now \in Int /\ shown \in 0..(Day - 1)

\* A number is a whole number of days and the time of day that is left.
LEMMA DayAndTime ==
    ASSUME NEW x \in Int
    PROVE  /\ x % Day \in 0..(Day - 1)
           /\ x = Day * (x \div Day) + (x % Day)
           /\ x \div Day \in Int
BY NormalizerAssumption DEF NormalizerAssumption

\* A whole number of days and a time of day have that time of day.
LEMMA TimeOfDay ==
    ASSUME NEW k \in Int, NEW t \in 0..(Day - 1)
    PROVE  (Day * k + t) % Day = t
<1>0. Day \in Nat /\ Day > 0 /\ t \in Int
  BY NormalizerAssumption DEF NormalizerAssumption
<1> DEFINE x == Day * k + t
           j == x \div Day
           r == x % Day
<1>1. x \in Int
  BY <1>0
<1>2. r \in 0..(Day - 1) /\ x = Day * j + r /\ j \in Int
  <2> HIDE DEF x
  <2> QED
    BY <1>1, DayAndTime
<1>3. Day * k + t = Day * j + r
  BY <1>2
<1> HIDE DEF x, j, r
<1>4. j = k
  <2>1. j - k \in Int /\ Day * (j - k) = t - r
    BY <1>0, <1>2, <1>3
  <2>2. j - k >= 1 => Day * (j - k) >= Day
    BY <1>0, <2>1
  <2>3. j - k <= -1 => Day * (j - k) <= - Day
    BY <1>0, <2>1
  <2> QED
    BY <1>0, <1>2, <2>1, <2>2, <2>3
<1>5. r = t
  BY <1>0, <1>2, <1>3, <1>4
<1> QED
  BY <1>5 DEF x, r

\* parseTimestamp, for every reading of the clock and every time of day.
LEMMA LatestTime ==
    ASSUME NormInv
    PROVE  TimeIsLatest
<1>0. Day \in Nat /\ Day > 0 /\ shown \in Int /\ 0 <= shown /\ shown < Day /\ now \in Int
  BY NormalizerAssumption DEF NormalizerAssumption, NormInv
<1> DEFINE k == now \div Day
           r == now % Day
           d == ParseTimestamp(shown, now, FALSE)
           y == ParseTimestamp(shown, now, TRUE)
<1>1. now = Day * k + r /\ k \in Int /\ r \in 0..(Day - 1)
  BY <1>0, DayAndTime
<1>2. Midnight(now) = now - r
  BY DEF Midnight
<1> HIDE DEF k, r
<1>3. Midnight(now) = Day * k /\ Day * k \in Int /\ Day * k <= now /\ now < Day * k + Day
  BY <1>0, <1>1, <1>2
<1>4. \/ d = Day * k + shown /\ d <= now + 1
      \/ d = Day * k + shown - Day /\ Day * k + shown > now + 1
  BY <1>0, <1>3 DEF ParseTimestamp
<1>5. y = Day * k + shown - Day
  BY <1>0, <1>3 DEF ParseTimestamp
<1> HIDE DEF d, y
<1>6. Day * k - Day = Day * (k - 1) /\ k - 1 \in Int
  BY <1>0, <1>1
<1>7. (Day * k + shown) % Day = shown /\ (Day * (k - 1) + shown) % Day = shown
  BY <1>1, <1>6, TimeOfDay DEF NormInv
<1>8. Day * k + shown - Day = Day * (k - 1) + shown
  BY <1>0, <1>3, <1>6
<1>9. d % Day = shown /\ d <= now + 1 /\ d > now - Day
  BY <1>0, <1>3, <1>4, <1>7, <1>8
<1>10. y % Day = shown /\ y \in Int
  BY <1>0, <1>3, <1>5, <1>7, <1>8
<1>11. Midnight(y) = Midnight(now) - Day
  BY <1>0, <1>3, <1>5, <1>10 DEF Midnight
<1> QED
  BY <1>9, <1>10, <1>11 DEF TimeIsLatest, d, y

LEMMA NormInvariant == PartsSpec => []NormInv
<1>1. PartsInit => NormInv
  BY NormalizerAssumption DEF PartsInit, NormInit, NormInv, NormalizerAssumption
<1>2. NormInv /\ [PartsNext]_partsVars => NormInv'
  <2> SUFFICES ASSUME NormInv, [PartsNext]_partsVars PROVE NormInv'
    OBVIOUS
  <2>1. NormNext \/ UNCHANGED normVars
    BY DEF PartsNext, partsVars
  <2>2. CASE UNCHANGED normVars
    BY <2>2 DEF normVars, NormInv
  <2>3. ASSUME NEW p \in Pieces, Type(p) PROVE NormInv'
    BY <2>3 DEF Type, NormInv
  <2>4. CASE Look
    BY <2>4, NormalizerAssumption DEF Look, NormInv, NormalizerAssumption
  <2> QED
    BY <2>1, <2>2, <2>3, <2>4 DEF NormNext
<1> QED
  BY <1>1, <1>2, PTL DEF PartsSpec

\* A message that the page shows with a time of day is dated within the last
\* day and at most a minute ahead, and "yesterday" is the day before today,
\* for every length of the day and every reading of the clock.
THEOREM TimeIsLatestHolds == PartsSpec => []TimeIsLatest
<1>1. NormInv => TimeIsLatest
  BY LatestTime
<1> QED
  BY <1>1, NormInvariant, PTL
-----------------------------------------------------------------------------
(***************************************************************************)
(* Induction over data.  A statement about every prefix of a sequence is   *)
(* proved by its least counterexample: the set of the naturals at which it *)
(* fails, if there are any, has a least number, which is not 0 and whose   *)
(* predecessor is not in the set.                                          *)
(***************************************************************************)
\* A set of naturals has a least number: what the arguments by least
\* counterexample below rest on.
LEMMA LeastNumber ==
    ASSUME NEW S \in SUBSET Nat, S # {}
    PROVE  \E n \in S : \A m \in S : n <= m
<1> DEFINE R == {p \in Nat \X Nat : p[1] < p[2]}
<1>1. R = OpToRel(<, Nat)
  BY DEF OpToRel
<1>2. IsWellFoundedOn(R, Nat)
  BY <1>1, NatLessThanWellFounded
<1>3. PICK x \in S : \A y \in S : ~(<<y, x>> \in R)
  <2> HIDE DEF R
  <2> QED
    BY <1>2, WFMin
<1>4. ASSUME NEW y \in S PROVE x <= y
  <2>1. x \in Nat /\ y \in Nat
    OBVIOUS
  <2>2. ~(y < x)
    <3>1. <<y, x>> \notin R
      BY <1>3
    <3>2. <<y, x>> \in Nat \X Nat
      BY <2>1
    <3> QED
      BY <3>1, <3>2
  <2> QED
    BY <2>1, <2>2
<1> QED
  BY <1>4

\* A set of naturals that has 0, and i + 1 for every i < n that it has, has n.
LEMMA UpTo ==
    ASSUME NEW n \in Nat, NEW S, 0 \in S,
           \A i \in 0..(n - 1) : i \in S => i + 1 \in S
    PROVE  \A i \in 0..n : i \in S
<1> DEFINE W == {i \in 0..n : i \notin S}
<1>1. SUFFICES ASSUME W # {} PROVE FALSE
  OBVIOUS
<1>2. PICK w \in W : \A m \in W : w <= m
  <2>1. W \in SUBSET Nat
    OBVIOUS
  <2> HIDE DEF W
  <2> QED
    BY <1>1, <2>1, LeastNumber
<1>3. w \in 1..n /\ w \notin S
  OBVIOUS
<1>4. w - 1 \notin W
  BY <1>2, <1>3
<1>5. w - 1 \in 0..(n - 1) /\ w - 1 \in S
  BY <1>3, <1>4
<1> QED
  BY <1>3, <1>5

-----------------------------------------------------------------------------
(***************************************************************************)
(* The cleaning of a message, of any length.  KeptUpTo is a recursive      *)
(* function: that its recursion has a solution is proved first.            *)
(***************************************************************************)
KeptRec(s, P, k) ==
    k = [n \in 0..Len(s) |->
            IF n = 0 THEN <<>>
            ELSE IF s[n] \in P THEN Append(k[n - 1], s[n]) ELSE k[n - 1]]

\* The recursion of KeptUpTo has a solution on every prefix.
LEMMA KeptExists ==
    ASSUME NEW U, NEW s \in Seq(U), NEW P
    PROVE  \E k : KeptRec(s, P, k)
<1> DEFINE Rec(k, m) ==
      k = [n \in 0..m |-> IF n = 0 THEN <<>>
                          ELSE IF s[n] \in P THEN Append(k[n - 1], s[n])
                                             ELSE k[n - 1]]
<1> DEFINE S == {m \in Nat : \E k : Rec(k, m)}
<1>1. 0 \in S
  <2> DEFINE k0 == [n \in 0..0 |-> <<>>]
  <2>1. Rec(k0, 0)
    OBVIOUS
  <2> QED
    BY <2>1
<1>2. ASSUME NEW i \in 0..(Len(s) - 1), i \in S PROVE i + 1 \in S
  <2>1. PICK f : Rec(f, i)
    BY <1>2
  <2> DEFINE v == IF s[i + 1] \in P THEN Append(f[i], s[i + 1]) ELSE f[i]
             g == [n \in 0..(i + 1) |-> IF n = i + 1 THEN v ELSE f[n]]
  <2>2. i \in Nat /\ 0..(i + 1) = 0..i \cup {i + 1}
    OBVIOUS
  <2>3. ASSUME NEW n \in 0..(i + 1)
        PROVE  g[n] = IF n = 0 THEN <<>>
                      ELSE IF s[n] \in P THEN Append(g[n - 1], s[n])
                                         ELSE g[n - 1]
    <3>1. CASE n = i + 1
      <4>1. g[n] = v /\ g[n - 1] = f[i] /\ n # 0
        BY <3>1, <2>2
      <4> QED
        BY <4>1, <3>1
    <3>2. CASE n = 0
      BY <3>2, <2>1, <2>2
    <3>3. CASE n \in 1..i
      <4>1. g[n] = f[n] /\ g[n - 1] = f[n - 1]
        BY <3>3, <2>2
      <4>2. n \in 0..i /\ n # 0
        BY <3>3, <2>2
      <4>3. f[n] = IF s[n] \in P THEN Append(f[n - 1], s[n]) ELSE f[n - 1]
        BY <2>1, <4>2
      <4> QED
        BY <4>1, <4>2, <4>3
    <3> QED
      BY <3>1, <3>2, <3>3, <2>2
  <2>4. Rec(g, i + 1)
    <3> DEFINE h == [n \in 0..(i + 1) |->
                       IF n = 0 THEN <<>>
                       ELSE IF s[n] \in P THEN Append(g[n - 1], s[n])
                                          ELSE g[n - 1]]
    <3>1. DOMAIN g = 0..(i + 1) /\ DOMAIN h = 0..(i + 1)
      OBVIOUS
    <3>2. \A n \in 0..(i + 1) : g[n] = h[n]
      <4> HIDE DEF g
      <4> QED
        BY <2>3
    <3>3. g = [n \in 0..(i + 1) |-> g[n]] /\ h = [n \in 0..(i + 1) |-> h[n]]
      OBVIOUS
    <3>4. g = h
      <4> HIDE DEF g, h
      <4> QED
        BY <3>2, <3>3
    <3> QED
      BY <3>4
  <2> QED
    <3> HIDE DEF g, Rec
    <3> QED
      BY <2>4, <2>2
<1>3. Len(s) \in S
  <2>1. \A i \in 0..Len(s) : i \in S
    <3> HIDE DEF S
    <3> QED
      BY <1>1, <1>2, UpTo
  <2> QED
    BY <2>1
<1>4. PICK k : Rec(k, Len(s))
  BY <1>3
<1>5. KeptRec(s, P, k)
  BY <1>4 DEF KeptRec
<1> QED
  BY <1>5

\* So KeptUpTo(s, P) is its solution.
LEMMA KeptIs ==
    ASSUME NEW U, NEW s \in Seq(U), NEW P
    PROVE  KeptUpTo(s, P) = [n \in 0..Len(s) |->
                IF n = 0 THEN <<>>
                ELSE IF s[n] \in P THEN Append(KeptUpTo(s, P)[n - 1], s[n])
                                   ELSE KeptUpTo(s, P)[n - 1]]
<1>1. KeptUpTo(s, P) = CHOOSE k : KeptRec(s, P, k)
  BY Zenon DEF KeptUpTo, KeptRec
<1>2. \E k : KeptRec(s, P, k)
  BY KeptExists
<1>3. KeptRec(s, P, KeptUpTo(s, P))
  BY <1>1, <1>2
<1> QED
  BY <1>3 DEF KeptRec

\* Its values at 0 and at a later prefix.
KeptSteps(s, P) ==
    /\ KeptUpTo(s, P)[0] = <<>>
    /\ \A i \in 0..(Len(s) - 1) :
          /\ s[i + 1] \in P => KeptUpTo(s, P)[i + 1]
                                 = Append(KeptUpTo(s, P)[i], s[i + 1])
          /\ s[i + 1] \notin P => KeptUpTo(s, P)[i + 1] = KeptUpTo(s, P)[i]

LEMMA KeptStep ==
    ASSUME NEW U, NEW s \in Seq(U), NEW P
    PROVE  KeptSteps(s, P)
<1>1. Len(s) \in Nat
  OBVIOUS
<1> DEFINE k == KeptUpTo(s, P)
<1>2. k = [n \in 0..Len(s) |->
                IF n = 0 THEN <<>>
                ELSE IF s[n] \in P THEN Append(k[n - 1], s[n])
                                   ELSE k[n - 1]]
  BY KeptIs
<1> HIDE DEF k
<1>3. k[0] = <<>>
  <2>1. 0 \in 0..Len(s)
    BY <1>1
  <2> QED
    BY <1>2, <2>1
<1>4. ASSUME NEW n \in 1..Len(s)
      PROVE  k[n] = IF s[n] \in P THEN Append(k[n - 1], s[n]) ELSE k[n - 1]
  <2>1. n \in 0..Len(s) /\ n # 0
    BY <1>1
  <2> QED
    BY <1>2, <2>1
<1>5. ASSUME NEW i \in 0..(Len(s) - 1)
      PROVE  /\ s[i + 1] \in P => k[i + 1] = Append(k[i], s[i + 1])
             /\ s[i + 1] \notin P => k[i + 1] = k[i]
  <2>1. i + 1 \in 1..Len(s) /\ (i + 1) - 1 = i
    BY <1>1
  <2>2. k[i + 1] = IF s[i + 1] \in P THEN Append(k[(i + 1) - 1], s[i + 1])
                                     ELSE k[(i + 1) - 1]
    BY <1>4, <2>1
  <2>3. k[i + 1] = IF s[i + 1] \in P THEN Append(k[i], s[i + 1]) ELSE k[i]
    BY <2>1, <2>2, Zenon
  <2> QED
    BY <2>3
<1> QED
  BY <1>3, <1>5 DEF k, KeptSteps

\* What is kept of a prefix is a sequence of pieces of P.
LEMMA KeptType ==
    ASSUME NEW U, NEW s \in Seq(U), NEW P
    PROVE  \A n \in 0..Len(s) : KeptUpTo(s, P)[n] \in Seq(U \cap P)
<1> DEFINE S == {n \in Nat : KeptUpTo(s, P)[n] \in Seq(U \cap P)}
<1>a. KeptSteps(s, P)
  BY KeptStep
<1>1. 0 \in S
  <2>1. <<>> \in Seq(U \cap P)
    OBVIOUS
  <2> QED
    BY <1>a, <2>1 DEF KeptSteps
<1>2. ASSUME NEW i \in 0..(Len(s) - 1), i \in S PROVE i + 1 \in S
  <2>1. i + 1 \in 1..Len(s) /\ (i + 1) - 1 = i /\ i + 1 \in Nat
    OBVIOUS
  <2>2. s[i + 1] \in U
    BY <2>1
  <2>3. KeptUpTo(s, P)[i] \in Seq(U \cap P)
    BY <1>2
  <2>4. /\ s[i + 1] \in P => KeptUpTo(s, P)[i + 1]
                                = Append(KeptUpTo(s, P)[i], s[i + 1])
        /\ s[i + 1] \notin P => KeptUpTo(s, P)[i + 1] = KeptUpTo(s, P)[i]
    BY <1>a DEF KeptSteps
  <2>5. KeptUpTo(s, P)[i + 1] \in Seq(U \cap P)
    <3> DEFINE a == KeptUpTo(s, P)[i]
    <3> HIDE DEF a
    <3>1. a \in Seq(U \cap P)
      BY <2>3 DEF a
    <3>2. /\ s[i + 1] \in P => KeptUpTo(s, P)[i + 1] = Append(a, s[i + 1])
          /\ s[i + 1] \notin P => KeptUpTo(s, P)[i + 1] = a
      BY <2>4 DEF a
    <3>3. s[i + 1] \in P => Append(a, s[i + 1]) \in Seq(U \cap P)
      BY <3>1, <2>2
    <3> QED
      BY <3>1, <3>2, <3>3
  <2> QED
    BY <2>1, <2>5
<1>3. \A n \in 0..Len(s) : n \in S
  <2> HIDE DEF S
  <2>1. Len(s) \in Nat
    OBVIOUS
  <2> QED
    BY <1>1, <1>2, <2>1, UpTo
<1> QED
  BY <1>3

\* What is kept of a prefix depends on the pieces of the prefix that are in P.
LEMMA KeptSame ==
    ASSUME NEW U, NEW V, NEW s \in Seq(U), NEW t \in Seq(V), NEW P,
           NEW n \in 0..Len(s), n <= Len(t),
           \A i \in 1..n : /\ s[i] \in P <=> t[i] \in P
                           /\ s[i] \in P => s[i] = t[i]
    PROVE  KeptUpTo(s, P)[n] = KeptUpTo(t, P)[n]
<1> DEFINE S == {i \in Nat : KeptUpTo(s, P)[i] = KeptUpTo(t, P)[i]}
<1>0. Len(s) \in Nat /\ Len(t) \in Nat /\ n \in Nat
  OBVIOUS
<1>a. KeptSteps(s, P)
  BY KeptStep
<1>b. KeptSteps(t, P)
  BY KeptStep
<1>1. 0 \in S
  BY <1>a, <1>b DEF KeptSteps
<1>2. ASSUME NEW i \in 0..(n - 1), i \in S PROVE i + 1 \in S
  <2>1. /\ i + 1 \in 1..Len(s) /\ i + 1 \in 1..Len(t) /\ (i + 1) - 1 = i
        /\ i + 1 \in Nat /\ i + 1 \in 1..n
    BY <1>0
  <2>2. KeptUpTo(s, P)[i] = KeptUpTo(t, P)[i]
    BY <1>2
  <2>3. /\ s[i + 1] \in P => KeptUpTo(s, P)[i + 1]
                                = Append(KeptUpTo(s, P)[i], s[i + 1])
        /\ s[i + 1] \notin P => KeptUpTo(s, P)[i + 1] = KeptUpTo(s, P)[i]
    BY <1>a DEF KeptSteps
  <2>4. /\ t[i + 1] \in P => KeptUpTo(t, P)[i + 1]
                                = Append(KeptUpTo(t, P)[i], t[i + 1])
        /\ t[i + 1] \notin P => KeptUpTo(t, P)[i + 1] = KeptUpTo(t, P)[i]
    <3>1. i \in 0..(Len(t) - 1)
      BY <1>0
    <3> QED
      BY <1>b, <3>1 DEF KeptSteps
  <2>5. /\ s[i + 1] \in P <=> t[i + 1] \in P
        /\ s[i + 1] \in P => s[i + 1] = t[i + 1]
    BY <2>1, Zenon
  <2>6. KeptUpTo(s, P)[i + 1] = KeptUpTo(t, P)[i + 1]
    BY <2>2, <2>3, <2>4, <2>5, Zenon
  <2> QED
    BY <2>1, <2>6
<1>3. \A i \in 0..n : i \in S
  <2> HIDE DEF S
  <2> QED
    BY <1>0, <1>1, <1>2, UpTo
<1>4. n \in 0..n
  BY <1>0
<1> QED
  BY <1>3, <1>4

\* Pieces outside P at the end of s leave Only(s, P) as it is.
LEMMA KeptTail ==
    ASSUME NEW U, NEW s \in Seq(U), NEW P, NEW n \in 0..Len(s),
           \A i \in (n + 1)..Len(s) : s[i] \notin P
    PROVE  Only(s, P) = KeptUpTo(s, P)[n]
<1> DEFINE S == {i \in Nat : KeptUpTo(s, P)[n + i] = KeptUpTo(s, P)[n]}
<1>0. Len(s) \in Nat /\ n \in Nat /\ Len(s) - n \in Nat
  OBVIOUS
<1>a. KeptSteps(s, P)
  BY KeptStep
<1>1. 0 \in S
  BY <1>0
<1>2. ASSUME NEW i \in 0..(Len(s) - n - 1), i \in S PROVE i + 1 \in S
  <2>1. i + 1 \in Nat /\ n + (i + 1) \in (n + 1)..Len(s)
    BY <1>0
  <2>2. KeptUpTo(s, P)[n + (i + 1)] = KeptUpTo(s, P)[n + i]
    <3>1. n + i \in 0..(Len(s) - 1) /\ n + (i + 1) = (n + i) + 1
      BY <1>0
    <3>2. s[(n + i) + 1] \notin P
      BY <2>1, <3>1
    <3>3. KeptUpTo(s, P)[(n + i) + 1] = KeptUpTo(s, P)[n + i]
      BY <1>a, <3>1, <3>2 DEF KeptSteps
    <3> QED
      BY <3>1, <3>3
  <2>3. KeptUpTo(s, P)[n + i] = KeptUpTo(s, P)[n]
    BY <1>2
  <2>4. KeptUpTo(s, P)[n + (i + 1)] = KeptUpTo(s, P)[n]
    BY <2>2, <2>3
  <2> QED
    BY <2>1, <2>4
<1>3. \A i \in 0..(Len(s) - n) : i \in S
  <2> HIDE DEF S
  <2> QED
    BY <1>0, <1>1, <1>2, UpTo
<1>4. Len(s) - n \in 0..(Len(s) - n) /\ n + (Len(s) - n) = Len(s)
  BY <1>0
<1>5. KeptUpTo(s, P)[n + (Len(s) - n)] = KeptUpTo(s, P)[n]
  BY <1>3, <1>4
<1> QED
  BY <1>4, <1>5 DEF Only

-----------------------------------------------------------------------------
(* What Only(s, P) is, whatever s was built from. *)
LEMMA OnlyType ==
    ASSUME NEW U, NEW s \in Seq(U), NEW P
    PROVE  Only(s, P) \in Seq(U \cap P)
<1>1. Len(s) \in 0..Len(s)
  OBVIOUS
<1> QED
  BY <1>1, KeptType DEF Only

\* Sequences that agree on the pieces in P have the same ones.
LEMMA OnlySame ==
    ASSUME NEW U, NEW V, NEW s \in Seq(U), NEW t \in Seq(V), NEW P,
           Len(s) = Len(t),
           \A i \in 1..Len(s) : /\ s[i] \in P <=> t[i] \in P
                                /\ s[i] \in P => s[i] = t[i]
    PROVE  Only(s, P) = Only(t, P)
<1>1. PICK n : n = Len(s)
  OBVIOUS
<1>2. n \in 0..Len(s) /\ n <= Len(t)
  BY <1>1
<1>3. \A i \in 1..n : /\ s[i] \in P <=> t[i] \in P
                      /\ s[i] \in P => s[i] = t[i]
  BY <1>1
<1>4. KeptUpTo(s, P)[n] = KeptUpTo(t, P)[n]
  BY <1>2, <1>3, KeptSame
<1> QED
  BY <1>1, <1>4 DEF Only

LEMMA OnlyAppend ==
    ASSUME NEW U, NEW s \in Seq(U), NEW x \in U, NEW P
    PROVE  /\ x \in P => Only(Append(s, x), P) = Append(Only(s, P), x)
           /\ x \notin P => Only(Append(s, x), P) = Only(s, P)
<1>1. PICK t : t = Append(s, x)
  OBVIOUS
<1>2. /\ t \in Seq(U) /\ Len(t) = Len(s) + 1 /\ Len(s) \in Nat
      /\ t[Len(s) + 1] = x /\ \A i \in 1..Len(s) : t[i] = s[i]
  BY <1>1
<1>3. KeptSteps(t, P)
  BY <1>2, KeptStep
<1>4. Len(s) \in 0..(Len(t) - 1)
  BY <1>2
<1>5. KeptUpTo(t, P)[Len(s)] = KeptUpTo(s, P)[Len(s)]
  <2>1. Len(s) \in 0..Len(t) /\ Len(s) <= Len(s)
    BY <1>2
  <2>2. \A i \in 1..Len(s) : /\ t[i] \in P <=> s[i] \in P
                             /\ t[i] \in P => t[i] = s[i]
    BY <1>2
  <2> QED
    BY <2>1, <2>2, <1>2, KeptSame
<1>6. /\ x \in P => KeptUpTo(t, P)[Len(s) + 1]
                      = Append(KeptUpTo(t, P)[Len(s)], x)
      /\ x \notin P => KeptUpTo(t, P)[Len(s) + 1] = KeptUpTo(t, P)[Len(s)]
  BY <1>2, <1>3, <1>4 DEF KeptSteps
<1>7. Only(t, P) = KeptUpTo(t, P)[Len(s) + 1]
  BY <1>2 DEF Only
<1>8. /\ x \in P => Only(t, P) = Append(Only(s, P), x)
      /\ x \notin P => Only(t, P) = Only(s, P)
  BY <1>5, <1>6, <1>7 DEF Only
<1> QED
  BY <1>1, <1>8

\* Keeping more first changes nothing.
LEMMA OnlyOnly ==
    ASSUME NEW U, NEW s \in Seq(U), NEW Q, NEW P \in SUBSET Q
    PROVE  Only(Only(s, Q), P) = Only(s, P)
<1> DEFINE S == {n \in Nat : Only(KeptUpTo(s, Q)[n], P) = KeptUpTo(s, P)[n]}
<1>0. Len(s) \in Nat
  OBVIOUS
<1>a. KeptSteps(s, P)
  BY KeptStep
<1>b. KeptSteps(s, Q)
  BY KeptStep
<1>1. 0 \in S
  <2>1. KeptUpTo(s, Q)[0] = <<>> /\ KeptUpTo(s, P)[0] = <<>>
    BY <1>a, <1>b DEF KeptSteps
  <2>2. Only(<<>>, P) = <<>>
    <3>0. <<>> \in Seq(U)
      OBVIOUS
    <3>1. PICK e \in Seq(U) : e = <<>>
      BY <3>0
    <3>2. KeptSteps(e, P)
      BY KeptStep
    <3>3. Len(e) = 0
      BY <3>1
    <3>4. Only(e, P) = <<>>
      BY <3>2, <3>3 DEF Only, KeptSteps
    <3> QED
      BY <3>1, <3>4
  <2> QED
    BY <2>1, <2>2
<1>2. ASSUME NEW i \in 0..(Len(s) - 1), i \in S PROVE i + 1 \in S
  <2>1. i + 1 \in Nat /\ s[i + 1] \in U /\ i \in 0..Len(s)
    BY <1>0
  <2>2. PICK a, x : a = KeptUpTo(s, Q)[i] /\ x = s[i + 1]
    OBVIOUS
  <2>3. a \in Seq(U) /\ x \in U
    <3>1. a \in Seq(U \cap Q)
      BY <2>1, <2>2, KeptType
    <3> QED
      BY <3>1, <2>1, <2>2
  <2>4. Only(a, P) = KeptUpTo(s, P)[i]
    BY <1>2, <2>2
  <2>5. /\ x \in P => Only(Append(a, x), P) = Append(Only(a, P), x)
        /\ x \notin P => Only(Append(a, x), P) = Only(a, P)
    BY <2>3, OnlyAppend
  <2>6. /\ x \in Q => KeptUpTo(s, Q)[i + 1] = Append(a, x)
        /\ x \notin Q => KeptUpTo(s, Q)[i + 1] = a
    BY <1>b, <2>2 DEF KeptSteps
  <2>7. /\ x \in P => KeptUpTo(s, P)[i + 1] = Append(KeptUpTo(s, P)[i], x)
        /\ x \notin P => KeptUpTo(s, P)[i + 1] = KeptUpTo(s, P)[i]
    BY <1>a, <2>2 DEF KeptSteps
  <2>8. Only(KeptUpTo(s, Q)[i + 1], P) = KeptUpTo(s, P)[i + 1]
    <3>1. CASE x \in P
      <4>1. x \in Q
        BY <3>1
      <4> QED
        BY <3>1, <4>1, <2>4, <2>5, <2>6, <2>7
    <3>2. CASE x \notin P /\ x \in Q
      BY <3>2, <2>4, <2>5, <2>6, <2>7
    <3>3. CASE x \notin P /\ x \notin Q
      BY <3>3, <2>4, <2>6, <2>7
    <3> QED
      BY <3>1, <3>2, <3>3
  <2> QED
    BY <2>1, <2>8
<1>3. \A n \in 0..Len(s) : n \in S
  <2> HIDE DEF S
  <2> QED
    BY <1>0, <1>1, <1>2, UpTo
<1>4. Len(s) \in S
  <2> HIDE DEF S
  <2> QED
    BY <1>0, <1>3
<1> QED
  BY <1>4 DEF Only

\* The last piece of s is the last one kept, when it is in P.
LEMMA OnlyLast ==
    ASSUME NEW U, NEW s \in Seq(U), NEW P, s # <<>>, s[Len(s)] \in P
    PROVE  Only(s, P) # <<>> /\ Only(s, P)[Len(Only(s, P))] = s[Len(s)]
<1>1. Len(s) - 1 \in 0..(Len(s) - 1) /\ Len(s) - 1 \in 0..Len(s)
      /\ (Len(s) - 1) + 1 = Len(s)
  OBVIOUS
<1>2. KeptSteps(s, P)
  BY KeptStep
<1>3. PICK a : a = KeptUpTo(s, P)[Len(s) - 1]
  OBVIOUS
<1>4. KeptUpTo(s, P)[(Len(s) - 1) + 1] = Append(a, s[(Len(s) - 1) + 1])
  BY <1>1, <1>2, <1>3 DEF KeptSteps
<1>5. Only(s, P) = Append(a, s[Len(s)])
  BY <1>1, <1>4 DEF Only
<1>6. a \in Seq(U \cap P)
  BY <1>1, <1>3, KeptType
<1> QED
  BY <1>5, <1>6

\* What is kept from the first pieces on, when those are outside P.
LEMMA OnlyHead ==
    ASSUME NEW U, NEW s \in Seq(U), NEW P, NEW m \in 1..(Len(s) + 1),
           \A i \in 1..(m - 1) : s[i] \notin P
    PROVE  Only(SubSeq(s, m, Len(s)), P) = Only(s, P)
<1>0. Len(s) \in Nat /\ m \in Nat \ {0} /\ m <= Len(s) + 1
  OBVIOUS
<1>1. PICK t : t = SubSeq(s, m, Len(s))
  OBVIOUS
<1>2. /\ t \in Seq(U) /\ Len(t) = Len(s) - m + 1 /\ Len(t) \in Nat
      /\ \A i \in 1..Len(t) : t[i] = s[i + m - 1]
  BY <1>0, <1>1
<1>a. KeptSteps(s, P)
  BY KeptStep
<1>b. KeptSteps(t, P)
  BY <1>2, KeptStep
<1>3. KeptUpTo(s, P)[m - 1] = <<>>
  <2> DEFINE S == {n \in Nat : KeptUpTo(s, P)[n] = <<>>}
  <2>1. 0 \in S
    BY <1>a DEF KeptSteps
  <2>2. ASSUME NEW i \in 0..(m - 2), i \in S PROVE i + 1 \in S
    <3>1. /\ i + 1 \in Nat /\ i + 1 \in 1..(m - 1)
          /\ i \in 0..(Len(s) - 1)
      BY <1>0
    <3>2. s[i + 1] \notin P
      BY <3>1
    <3>3. KeptUpTo(s, P)[i + 1] = KeptUpTo(s, P)[i]
      BY <3>1, <3>2, <1>a DEF KeptSteps
    <3> QED
      BY <2>2, <3>1, <3>3
  <2>3. \A n \in 0..(m - 1) : n \in S
    <3> HIDE DEF S
    <3>1. (m - 1) \in Nat /\ (m - 1) - 1 = m - 2
      BY <1>0
    <3>2. \A i \in 0..((m - 1) - 1) : i \in S => i + 1 \in S
      BY <2>2, <3>1
    <3> QED
      BY <2>1, <3>1, <3>2, UpTo
  <2>4. m - 1 \in 0..(m - 1)
    BY <1>0
  <2> QED
    BY <2>3, <2>4
<1>4. KeptUpTo(t, P)[Len(t)] = KeptUpTo(s, P)[Len(t) + (m - 1)]
  <2> DEFINE S == {n \in Nat : KeptUpTo(t, P)[n] = KeptUpTo(s, P)[n + (m - 1)]}
  <2>1. 0 \in S
    <3>1. 0 + (m - 1) = m - 1
      BY <1>0
    <3> QED
      BY <3>1, <1>3, <1>b DEF KeptSteps
  <2>2. ASSUME NEW i \in 0..(Len(t) - 1), i \in S PROVE i + 1 \in S
    <3>1. PICK j : j = i + (m - 1)
      OBVIOUS
    <3>2. /\ i + 1 \in Nat /\ i + 1 \in 1..Len(t) /\ j \in 0..(Len(s) - 1)
          /\ (i + 1) + m - 1 = j + 1 /\ (i + 1) + (m - 1) = j + 1
      BY <1>0, <1>2, <3>1
    <3>3. t[i + 1] = s[j + 1]
      <4>1. t[i + 1] = s[(i + 1) + m - 1]
        BY <1>2, <3>2
      <4> QED
        BY <3>2, <4>1, Zenon
    <3>4. /\ t[i + 1] \in P => KeptUpTo(t, P)[i + 1]
                                  = Append(KeptUpTo(t, P)[i], t[i + 1])
          /\ t[i + 1] \notin P => KeptUpTo(t, P)[i + 1] = KeptUpTo(t, P)[i]
      BY <1>b DEF KeptSteps
    <3>5. /\ s[j + 1] \in P => KeptUpTo(s, P)[j + 1]
                                  = Append(KeptUpTo(s, P)[j], s[j + 1])
          /\ s[j + 1] \notin P => KeptUpTo(s, P)[j + 1] = KeptUpTo(s, P)[j]
      BY <1>a, <3>2 DEF KeptSteps
    <3>6. KeptUpTo(t, P)[i] = KeptUpTo(s, P)[j]
      BY <2>2, <3>1
    <3>7. KeptUpTo(t, P)[i + 1] = KeptUpTo(s, P)[j + 1]
      BY <3>3, <3>4, <3>5, <3>6, Zenon
    <3> QED
      BY <3>2, <3>7
  <2>3. \A n \in 0..Len(t) : n \in S
    <3> HIDE DEF S
    <3> QED
      BY <1>2, <2>1, <2>2, UpTo
  <2>4. Len(t) \in S
    <3> HIDE DEF S
    <3> QED
      BY <1>2, <2>3
  <2> QED
    BY <2>4
<1>5. Len(t) + (m - 1) = Len(s)
  BY <1>0, <1>2
<1>6. Only(t, P) = Only(s, P)
  BY <1>4, <1>5 DEF Only
<1> QED
  BY <1>1, <1>6

-----------------------------------------------------------------------------
(* What the trims of cleanMessageContent cut off. *)
LEMMA TrimRightIs ==
    ASSUME NEW U, NEW s \in Seq(U), NEW P
    PROVE  \E n \in 0..Len(s) :
             /\ TrimRight(s, P) = SubSeq(s, 1, n)
             /\ \A i \in (n + 1)..Len(s) : s[i] \in P
             /\ n # 0 => s[n] \notin P
<1> DEFINE S == {0} \cup {i \in DOMAIN s : s[i] \notin P}
           D == {Len(s) - i : i \in S}
<1>0. Len(s) \in Nat /\ DOMAIN s = 1..Len(s)
  OBVIOUS
<1>1. S \subseteq 0..Len(s) /\ 0 \in S
  BY <1>0
<1>2. D \in SUBSET Nat /\ D # {}
  <2> HIDE DEF S
  <2>1. ASSUME NEW d \in D PROVE d \in Nat
    <3>1. PICK i \in S : d = Len(s) - i
      OBVIOUS
    <3>2. i \in 0..Len(s)
      BY <1>1
    <3> QED
      BY <1>0, <3>1, <3>2
  <2>2. Len(s) - 0 \in D
    BY <1>1
  <2> QED
    BY <2>1, <2>2
<1>3. \E x \in S : \A y \in S : x >= y
  <2>1. PICK d \in D : \A e \in D : d <= e
    <3> HIDE DEF D
    <3> QED
      BY <1>2, LeastNumber
  <2> HIDE DEF S
  <2>2. PICK x \in S : d = Len(s) - x
    OBVIOUS
  <2>3. ASSUME NEW y \in S PROVE x >= y
    <3>1. Len(s) - y \in D
      OBVIOUS
    <3>2. d <= Len(s) - y
      BY <2>1, <3>1
    <3>3. x \in 0..Len(s) /\ y \in 0..Len(s)
      BY <1>1
    <3> QED
      BY <1>0, <2>2, <3>2, <3>3
  <2> QED
    BY <2>3
<1>4. PICK n : n = Max(S)
  OBVIOUS
<1>5. n \in S /\ \A y \in S : n >= y
  <2> HIDE DEF S
  <2> QED
    BY <1>3, <1>4 DEF Max
<1>6. n \in 0..Len(s)
  <2> HIDE DEF S
  <2> QED
    BY <1>1, <1>5
<1>7. TrimRight(s, P) = SubSeq(s, 1, n)
  BY <1>4 DEF TrimRight
<1>8. ASSUME NEW i \in (n + 1)..Len(s) PROVE s[i] \in P
  <2>1. i \in DOMAIN s /\ ~(n >= i)
    BY <1>0, <1>6
  <2>2. i \notin S
    <3> HIDE DEF S
    <3> QED
      BY <1>5, <2>1
  <2> QED
    BY <2>1, <2>2
<1>9. n # 0 => s[n] \notin P
  BY <1>5
<1> QED
  BY <1>6, <1>7, <1>8, <1>9

LEMMA TrimLeftIs ==
    ASSUME NEW U, NEW s \in Seq(U), NEW P
    PROVE  \E m \in 1..(Len(s) + 1) :
             /\ TrimLeft(s, P) = SubSeq(s, m, Len(s))
             /\ \A i \in 1..(m - 1) : s[i] \in P
             /\ m <= Len(s) => s[m] \notin P
<1> DEFINE S == {Len(s) + 1} \cup {i \in DOMAIN s : s[i] \notin P}
<1>0. Len(s) \in Nat /\ DOMAIN s = 1..Len(s)
  OBVIOUS
<1>1. S \subseteq 1..(Len(s) + 1) /\ S \in SUBSET Nat /\ S # {}
  BY <1>0
<1>2. \E x \in S : \A y \in S : x <= y
  <2> HIDE DEF S
  <2> QED
    BY <1>1, LeastNumber
<1>3. PICK m : m = Min(S)
  OBVIOUS
<1>4. m \in S /\ \A y \in S : m <= y
  <2> HIDE DEF S
  <2> QED
    BY <1>2, <1>3 DEF Min
<1>5. m \in 1..(Len(s) + 1)
  <2> HIDE DEF S
  <2> QED
    BY <1>1, <1>4
<1>6. TrimLeft(s, P) = SubSeq(s, m, Len(s))
  BY <1>3 DEF TrimLeft
<1>7. ASSUME NEW i \in 1..(m - 1) PROVE s[i] \in P
  <2>1. i \in DOMAIN s /\ ~(m <= i)
    BY <1>0, <1>5
  <2>2. i \notin S
    <3> HIDE DEF S
    <3> QED
      BY <1>4, <2>1
  <2> QED
    BY <2>1, <2>2
<1>8. m <= Len(s) => s[m] \notin P
  BY <1>0, <1>4
<1> QED
  BY <1>5, <1>6, <1>7, <1>8

\* Trimming pieces outside P leaves the pieces in P as they are.
LEMMA TrimRightOnly ==
    ASSUME NEW U, NEW s \in Seq(U), NEW P, NEW Q, P \cap Q = {}
    PROVE  TrimRight(s, Q) \in Seq(U) /\ Only(TrimRight(s, Q), P) = Only(s, P)
<1>1. PICK n \in 0..Len(s) :
        /\ TrimRight(s, Q) = SubSeq(s, 1, n)
        /\ \A i \in (n + 1)..Len(s) : s[i] \in Q
  BY TrimRightIs
<1>2. PICK t : t = SubSeq(s, 1, n)
  OBVIOUS
<1>3. /\ t \in Seq(U) /\ Len(t) = n /\ n \in 0..Len(t) /\ n <= Len(s)
      /\ \A i \in 1..n : t[i] = s[i]
  BY <1>2
<1>4. \A i \in (n + 1)..Len(s) : s[i] \notin P
  BY <1>1
<1>5. Only(s, P) = KeptUpTo(s, P)[n]
  BY <1>4, KeptTail
<1>6. \A i \in 1..n : /\ t[i] \in P <=> s[i] \in P
                      /\ t[i] \in P => t[i] = s[i]
  BY <1>3
<1>7. KeptUpTo(t, P)[n] = KeptUpTo(s, P)[n]
  BY <1>3, <1>6, KeptSame
<1>8. Only(t, P) = Only(s, P)
  BY <1>3, <1>5, <1>7 DEF Only
<1> QED
  BY <1>1, <1>2, <1>3, <1>8

LEMMA TrimLeftOnly ==
    ASSUME NEW U, NEW s \in Seq(U), NEW P, NEW Q, P \cap Q = {}
    PROVE  TrimLeft(s, Q) \in Seq(U) /\ Only(TrimLeft(s, Q), P) = Only(s, P)
<1>1. PICK m \in 1..(Len(s) + 1) :
        /\ TrimLeft(s, Q) = SubSeq(s, m, Len(s))
        /\ \A i \in 1..(m - 1) : s[i] \in Q
  BY TrimLeftIs
<1>2. SubSeq(s, m, Len(s)) \in Seq(U)
  OBVIOUS
<1>3. \A i \in 1..(m - 1) : s[i] \notin P
  BY <1>1
<1>4. Only(SubSeq(s, m, Len(s)), P) = Only(s, P)
  BY <1>3, OnlyHead
<1> QED
  BY <1>1, <1>2, <1>4

LEMMA TrimOnly ==
    ASSUME NEW U, NEW s \in Seq(U), NEW P, "space" \notin P
    PROVE  Trim(s) \in Seq(U) /\ Only(Trim(s), P) = Only(s, P)
<1>1. P \cap {"space"} = {}
  OBVIOUS
<1>2. PICK t : t = TrimRight(s, {"space"})
  OBVIOUS
<1>3. t \in Seq(U) /\ Only(t, P) = Only(s, P)
  BY <1>1, <1>2, TrimRightOnly
<1>4. TrimLeft(t, {"space"}) \in Seq(U)
      /\ Only(TrimLeft(t, {"space"}), P) = Only(t, P)
  BY <1>1, <1>3, TrimLeftOnly
<1> QED
  BY <1>2, <1>3, <1>4 DEF Trim

\* A sequence that does not end in P, or does not begin in P, is not trimmed.
LEMMA NothingAtEnd ==
    ASSUME NEW U, NEW s \in Seq(U), NEW P, s # <<>> => s[Len(s)] \notin P
    PROVE  TrimRight(s, P) = s
<1>1. PICK n \in 0..Len(s) :
        /\ TrimRight(s, P) = SubSeq(s, 1, n)
        /\ \A i \in (n + 1)..Len(s) : s[i] \in P
  BY TrimRightIs
<1>2. n = Len(s)
  <2>1. SUFFICES ASSUME n # Len(s) PROVE FALSE
    OBVIOUS
  <2>2. Len(s) \in Nat /\ Len(s) # 0
    BY <2>1
  <2>3. Len(s) \in (n + 1)..Len(s) /\ s # <<>>
    BY <2>1, <2>2
  <2> QED
    BY <1>1, <2>3
<1>3. SubSeq(s, 1, Len(s)) = s
  OBVIOUS
<1> QED
  BY <1>1, <1>2, <1>3

LEMMA NothingAtStart ==
    ASSUME NEW U, NEW s \in Seq(U), NEW P, s # <<>> => s[1] \notin P
    PROVE  TrimLeft(s, P) = s
<1>1. PICK m \in 1..(Len(s) + 1) :
        /\ TrimLeft(s, P) = SubSeq(s, m, Len(s))
        /\ \A i \in 1..(m - 1) : s[i] \in P
  BY TrimLeftIs
<1>2. m = 1
  <2>1. SUFFICES ASSUME m # 1 PROVE FALSE
    OBVIOUS
  <2>2. Len(s) \in Nat /\ Len(s) # 0
    BY <2>1
  <2>3. 1 \in 1..(m - 1) /\ s # <<>>
    BY <2>1, <2>2
  <2> QED
    BY <1>1, <2>3
<1>3. SubSeq(s, 1, Len(s)) = s
  OBVIOUS
<1> QED
  BY <1>1, <1>2, <1>3

-----------------------------------------------------------------------------
\* The pieces of s in P, counted, are as many as are kept.
LEMMA CountLen ==
    ASSUME NEW U, NEW s \in Seq(U), NEW P
    PROVE  Count(s, P) = Len(Only(s, P)) /\ Count(s, P) \in Nat
<1> DEFINE At(n) == {i \in 1..n : s[i] \in P}
           S == {n \in Nat : /\ IsFiniteSet(At(n))
                             /\ Cardinality(At(n)) = Len(KeptUpTo(s, P)[n])}
<1>0. Len(s) \in Nat /\ DOMAIN s = 1..Len(s)
  OBVIOUS
<1>a. KeptSteps(s, P)
  BY KeptStep
<1>1. 0 \in S
  <2>1. At(0) = {}
    OBVIOUS
  <2>2. KeptUpTo(s, P)[0] = <<>>
    BY <1>a DEF KeptSteps
  <2>3. IsFiniteSet({}) /\ Cardinality({}) = 0
    BY FS_EmptySet
  <2> QED
    BY <2>1, <2>2, <2>3
<1>2. ASSUME NEW i \in 0..(Len(s) - 1), i \in S PROVE i + 1 \in S
  <2>1. i \in Nat /\ i + 1 \in Nat /\ i \in 0..Len(s)
    BY <1>0
  <2>2. PICK k : k = KeptUpTo(s, P)[i]
    OBVIOUS
  <2>3. k \in Seq(U \cap P)
    BY <2>1, <2>2, KeptType
  <2>4. IsFiniteSet(At(i)) /\ Cardinality(At(i)) = Len(k)
    BY <1>2, <2>2
  <2>5. CASE s[i + 1] \in P
    <3>1. At(i + 1) = At(i) \cup {i + 1} /\ i + 1 \notin At(i)
      BY <2>1, <2>5
    <3>2. IsFiniteSet(At(i + 1)) /\ Cardinality(At(i + 1)) = Len(k) + 1
      <4> HIDE DEF At
      <4>1. /\ IsFiniteSet(At(i) \cup {i + 1})
            /\ Cardinality(At(i) \cup {i + 1}) = Cardinality(At(i)) + 1
        BY <2>4, <3>1, FS_AddElement
      <4> QED
        BY <3>1, <4>1, <2>4
    <3>3. KeptUpTo(s, P)[i + 1] = Append(k, s[i + 1])
      BY <1>a, <2>2, <2>5 DEF KeptSteps
    <3>4. Len(Append(k, s[i + 1])) = Len(k) + 1
      BY <2>3
    <3> QED
      BY <2>1, <3>2, <3>3, <3>4
  <2>6. CASE s[i + 1] \notin P
    <3>1. At(i + 1) = At(i)
      BY <2>1, <2>6
    <3>2. KeptUpTo(s, P)[i + 1] = k
      BY <1>a, <2>2, <2>6 DEF KeptSteps
    <3> QED
      BY <2>1, <2>4, <3>1, <3>2
  <2> QED
    BY <2>5, <2>6
<1>3. \A n \in 0..Len(s) : n \in S
  <2> HIDE DEF S
  <2> QED
    BY <1>0, <1>1, <1>2, UpTo
<1>4. Len(s) \in S
  <2> HIDE DEF S
  <2> QED
    BY <1>0, <1>3
<1>5. Count(s, P) = Cardinality(At(Len(s)))
  BY <1>0 DEF Count
<1>6. Count(s, P) = Len(Only(s, P))
  BY <1>4, <1>5 DEF Only
<1>7. Only(s, P) \in Seq(U \cap P)
  BY OnlyType
<1>8. Len(Only(s, P)) \in Nat
  BY <1>7
<1> QED
  BY <1>6, <1>8

\* Pieces of two kinds are counted apart.
LEMMA CountTwo ==
    ASSUME NEW U, NEW s \in Seq(U), NEW a, NEW b, a # b
    PROVE  Count(s, {a, b}) = Count(s, {a}) + Count(s, {b})
<1> DEFINE A == {i \in DOMAIN s : s[i] \in {a}}
           B == {i \in DOMAIN s : s[i] \in {b}}
<1>1. A \cap B = {} /\ {i \in DOMAIN s : s[i] \in {a, b}} = A \cup B
  OBVIOUS
<1>2. IsFiniteSet(1..Len(s))
  <2>1. Len(s) \in Int /\ 1 \in Int
    OBVIOUS
  <2> QED
    BY <2>1, FS_Interval
<1>3. IsFiniteSet(A) /\ IsFiniteSet(B)
  <2>1. A \in SUBSET (1..Len(s)) /\ B \in SUBSET (1..Len(s))
    OBVIOUS
  <2> HIDE DEF A, B
  <2> QED
    BY <1>2, <2>1, FS_Subset
<1>4. Cardinality(A \cup B) = Cardinality(A) + Cardinality(B)
  <2> HIDE DEF A, B
  <2>1. Cardinality(A \cup B)
          = Cardinality(A) + Cardinality(B) - Cardinality(A \cap B)
    BY <1>3, FS_Union
  <2>2. Cardinality(A \cap B) = 0
    BY <1>1, FS_EmptySet
  <2>3. Cardinality(A) \in Nat /\ Cardinality(B) \in Nat
    BY <1>3, FS_CardinalityType
  <2> QED
    BY <2>1, <2>2, <2>3
<1> QED
  BY <1>1, <1>4 DEF Count

-----------------------------------------------------------------------------
\* The recursion of Matched has a solution: each match looks at the one two
\* pieces before it.
LEMMA MatchedExists ==
    ASSUME NEW U, NEW s \in Seq(U)
    PROVE  \E k : k = [n \in DOMAIN s |->
                         Alone(s, n) /\ (n > 2 => ~k[n - 2])]
<1> DEFINE Rec(k, m) ==
      k = [n \in 1..m |-> Alone(s, n) /\ (n > 2 => ~k[n - 2])]
<1> DEFINE S == {m \in Nat : \E k : Rec(k, m)}
<1>1. 0 \in S
  <2> DEFINE k0 == [n \in 1..0 |-> FALSE]
  <2>1. Rec(k0, 0)
    OBVIOUS
  <2> QED
    <3> HIDE DEF Rec, k0
    <3> QED
      BY <2>1
<1>2. ASSUME NEW i \in 0..(Len(s) - 1), i \in S PROVE i + 1 \in S
  <2>1. PICK f : Rec(f, i)
    BY <1>2
  <2> DEFINE v == Alone(s, i + 1) /\ (i + 1 > 2 => ~f[(i + 1) - 2])
             g == [n \in 1..(i + 1) |-> IF n = i + 1 THEN v ELSE f[n]]
  <2>2. i \in Nat /\ 1..(i + 1) = 1..i \cup {i + 1}
    OBVIOUS
  <2>3. ASSUME NEW n \in 1..(i + 1)
        PROVE  g[n] = (Alone(s, n) /\ (n > 2 => ~g[n - 2]))
    <3>1. n > 2 => g[n - 2] = f[n - 2]
      <4>1. n > 2 => n - 2 \in 1..(i + 1) /\ n - 2 # i + 1
        BY <2>2
      <4> QED
        BY <4>1
    <3>2. CASE n = i + 1
      <4>1. g[n] = v
        BY <3>2, <2>2
      <4> HIDE DEF g
      <4> QED
        BY <4>1, <3>1, <3>2
    <3>3. CASE n \in 1..i
      <4>1. g[n] = f[n]
        BY <3>3, <2>2
      <4>2. f[n] = (Alone(s, n) /\ (n > 2 => ~f[n - 2]))
        BY <2>1, <3>3
      <4> HIDE DEF g
      <4> QED
        BY <4>1, <4>2, <3>1
    <3> QED
      BY <3>2, <3>3, <2>2
  <2>4. Rec(g, i + 1)
    <3> DEFINE h == [n \in 1..(i + 1) |->
                       Alone(s, n) /\ (n > 2 => ~g[n - 2])]
    <3>1. DOMAIN g = 1..(i + 1) /\ DOMAIN h = 1..(i + 1)
      OBVIOUS
    <3>2. \A n \in 1..(i + 1) : g[n] = h[n]
      <4> HIDE DEF g
      <4> QED
        BY <2>3
    <3>3. g = [n \in 1..(i + 1) |-> g[n]] /\ h = [n \in 1..(i + 1) |-> h[n]]
      OBVIOUS
    <3>4. g = h
      <4> HIDE DEF g, h
      <4> QED
        BY <3>2, <3>3
    <3> QED
      BY <3>4
  <2> QED
    <3> HIDE DEF g, Rec
    <3> QED
      BY <2>4, <2>2
<1>3. Len(s) \in S
  <2>1. \A i \in 0..Len(s) : i \in S
    <3> HIDE DEF S
    <3>1. Len(s) \in Nat
      OBVIOUS
    <3> QED
      BY <1>1, <1>2, <3>1, UpTo
  <2>2. Len(s) \in 0..Len(s)
    OBVIOUS
  <2> HIDE DEF S
  <2> QED
    BY <2>1, <2>2
<1>4. PICK k : Rec(k, Len(s))
  BY <1>3
<1>5. 1..Len(s) = DOMAIN s
  OBVIOUS
<1> QED
  BY <1>4, <1>5

\* Only a smile is matched.
LEMMA MatchedSmile ==
    ASSUME NEW U, NEW s \in Seq(U), NEW i \in DOMAIN s, Matched(s)[i]
    PROVE  s[i] = "smile"
<1> DEFINE Sol(k) == k = [n \in DOMAIN s |->
                            Alone(s, n) /\ (n > 2 => ~k[n - 2])]
<1>1. Matched(s) = CHOOSE k : Sol(k)
  BY Zenon DEF Matched
<1>2. \E k : Sol(k)
  BY MatchedExists
<1>3. Sol(Matched(s))
  <2> HIDE DEF Sol
  <2> QED
    BY <1>1, <1>2
<1>4. PICK k : k = Matched(s)
  OBVIOUS
<1>5. k[i] = (Alone(s, i) /\ (i > 2 => ~k[i - 2]))
  BY <1>3, <1>4, Zenon
<1> QED
  BY <1>4, <1>5 DEF Alone

\* Inline turns some smiles into emoji and changes nothing else.
LEMMA InlineIs ==
    ASSUME NEW U, NEW s \in Seq(U)
    PROVE  /\ Inline(s) \in Seq(U \cup {"emoji"})
           /\ Len(Inline(s)) = Len(s) /\ DOMAIN Inline(s) = DOMAIN s
           /\ \A i \in DOMAIN s : \/ Inline(s)[i] = s[i]
                                  \/ s[i] = "smile" /\ Inline(s)[i] = "emoji"
<1>1. PICK M : M = Matched(s)
  OBVIOUS
<1>2. Inline(s) = [i \in DOMAIN s |-> IF M[i] THEN "emoji" ELSE s[i]]
  BY <1>1 DEF Inline
<1>3. \A i \in DOMAIN s : M[i] => s[i] = "smile"
  BY <1>1, MatchedSmile
<1>4. PICK t : t = [i \in DOMAIN s |-> IF M[i] THEN "emoji" ELSE s[i]]
  OBVIOUS
<1>5. DOMAIN s = 1..Len(s) /\ Len(s) \in Nat
  OBVIOUS
<1>6. t \in [1..Len(s) -> U \cup {"emoji"}]
  <2>1. \A i \in 1..Len(s) : s[i] \in U
    OBVIOUS
  <2> QED
    BY <1>4, <1>5, <2>1
<1>7. t \in Seq(U \cup {"emoji"}) /\ Len(t) = Len(s) /\ DOMAIN t = DOMAIN s
  BY <1>5, <1>6
<1>8. \A i \in DOMAIN s : t[i] = s[i] \/ (s[i] = "smile" /\ t[i] = "emoji")
  BY <1>3, <1>4
<1> QED
  BY <1>2, <1>4, <1>7, <1>8

-----------------------------------------------------------------------------
\* RestoreUrls changes each url with a dollar and nothing else.
LEMMA RestoreIs ==
    ASSUME NEW U, NEW s \in Seq(U)
    PROVE  /\ RestoreUrls(s) \in Seq(U \cup {"mangled"})
           /\ Len(RestoreUrls(s)) = Len(s) /\ DOMAIN RestoreUrls(s) = DOMAIN s
           /\ \A i \in DOMAIN s :
                 \/ s[i] # "dollar" /\ RestoreUrls(s)[i] = s[i]
                 \/ s[i] = "dollar" /\ RestoreUrls(s)[i] = "mangled"
<1>1. PICK t : t = [i \in DOMAIN s |-> IF s[i] = "dollar" THEN "mangled" ELSE s[i]]
  OBVIOUS
<1>2. DOMAIN s = 1..Len(s) /\ Len(s) \in Nat
  OBVIOUS
<1>3. t \in [1..Len(s) -> U \cup {"mangled"}]
  <2>1. \A i \in 1..Len(s) : s[i] \in U
    OBVIOUS
  <2> QED
    BY <1>1, <1>2, <2>1
<1>4. t \in Seq(U \cup {"mangled"}) /\ Len(t) = Len(s)
      /\ DOMAIN t = DOMAIN s
  BY <1>2, <1>3
<1>5. \A i \in DOMAIN s : \/ s[i] # "dollar" /\ t[i] = s[i]
                          \/ s[i] = "dollar" /\ t[i] = "mangled"
  BY <1>1
<1>6. RestoreUrls(s) = t
  BY <1>1 DEF RestoreUrls
<1> QED
  BY <1>4, <1>5, <1>6

-----------------------------------------------------------------------------
Plain == Words \cup {"url"}
Solid == Words \cup Urls

\* The stripped text: it ends in a word or a url, and has those of the message.
LEMMA StripTrailingIs ==
    ASSUME NEW s \in Seq(Pieces)
    PROVE  /\ StripTrailing(s) \in Seq(Pieces)
           /\ StripTrailing(s) # <<>> =>
                StripTrailing(s)[Len(StripTrailing(s))] \in Solid
           /\ \A P \in SUBSET Solid : Only(StripTrailing(s), P) = Only(s, P)
<1> DEFINE Q == Reactions \cup {"space"}
<1>0. "space" \notin Solid /\ Solid \cap Q = {} /\ Pieces \ Q = Solid
  BY DEF Solid, Words, Urls, Pieces, Reactions
<1>1. PICK t : t = Trim(s)
  OBVIOUS
<1>2. t \in Seq(Pieces) /\ \A P \in SUBSET Solid : Only(t, P) = Only(s, P)
  <2>1. ASSUME NEW P \in SUBSET Solid
        PROVE  t \in Seq(Pieces) /\ Only(t, P) = Only(s, P)
    <3>1. "space" \notin P
      BY <1>0
    <3> QED
      BY <1>1, <3>1, TrimOnly
  <2> QED
    BY <2>1
<1>3. PICK k : k = TrimRight(t, Q)
  OBVIOUS
<1>4. k = StripTrailing(s)
  BY <1>1, <1>3 DEF StripTrailing
<1> HIDE DEF Q
<1>5. k \in Seq(Pieces) /\ \A P \in SUBSET Solid : Only(k, P) = Only(t, P)
  <2>1. ASSUME NEW P \in SUBSET Solid
        PROVE  k \in Seq(Pieces) /\ Only(k, P) = Only(t, P)
    <3>1. P \cap Q = {}
      BY <1>0
    <3> QED
      BY <1>2, <1>3, <3>1, TrimRightOnly
  <2> QED
    BY <2>1
<1>6. k # <<>> => k[Len(k)] \in Solid
  <2>1. PICK n \in 0..Len(t) :
          TrimRight(t, Q) = SubSeq(t, 1, n) /\ (n # 0 => t[n] \notin Q)
    BY <1>2, TrimRightIs
  <2>2. k # <<>> => n # 0 /\ Len(k) = n /\ k[n] = t[n] /\ t[n] \in Pieces
    BY <1>2, <1>3, <2>1
  <2> QED
    BY <1>0, <2>1, <2>2
<1> QED
  BY <1>2, <1>4, <1>5, <1>6

\* What is left when the legacy codes are out.
LEMMA DropLegacyIs ==
    ASSUME NEW s \in Seq(Pieces), s # <<>> => s[Len(s)] \in Solid
    PROVE  /\ DropLegacy(s) \in Seq(Pieces \ {"legacy"})
           /\ \A P \in SUBSET (Pieces \ {"legacy", "space"}) :
                Only(DropLegacy(s), P) = Only(s, P)
           /\ DropLegacy(s) # <<>> =>
                /\ DropLegacy(s)[1] # "space"
                /\ DropLegacy(s)[Len(DropLegacy(s))] \in Solid
<1> DEFINE Q == AllPieces \ {"legacy"}
<1>0. /\ Pieces \cap Q = Pieces \ {"legacy"} /\ Solid \subseteq Q
      /\ "space" \notin Solid
  BY DEF Solid, Words, Urls, Reactions, Pieces, AllPieces
<1>1. PICK t : t = Only(s, Q)
  OBVIOUS
<1>2. PICK r : r = Trim(t)
  OBVIOUS
<1>3. DropLegacy(s) = r
  BY <1>1, <1>2 DEF DropLegacy
<1>4. t \in Seq(Pieces \ {"legacy"})
  <2>1. t \in Seq(Pieces \cap Q)
    <3> HIDE DEF Q
    <3> QED
      BY <1>1, OnlyType
  <2> QED
    BY <1>0, <2>1
<1>5. r \in Seq(Pieces \ {"legacy"})
  <2>1. "space" \notin Solid
    BY <1>0
  <2> QED
    BY <2>1, <1>2, <1>4, TrimOnly
<1>6. ASSUME NEW P \in SUBSET (Pieces \ {"legacy", "space"})
      PROVE  Only(r, P) = Only(s, P)
  <2>1. P \in SUBSET Q /\ "space" \notin P
    BY DEF AllPieces
  <2>2. Only(t, P) = Only(s, P)
    <3> HIDE DEF Q
    <3> QED
      BY <1>1, <2>1, OnlyOnly
  <2>3. Only(r, P) = Only(t, P)
    BY <1>2, <1>4, <2>1, TrimOnly
  <2> QED
    BY <2>2, <2>3
<1>7. s = <<>> => t = <<>>
  <2>1. KeptSteps(s, Q)
    <3> HIDE DEF Q
    <3> QED
      BY KeptStep
  <2> HIDE DEF Q
  <2>2. s = <<>> => Len(s) = 0
    OBVIOUS
  <2> QED
    BY <1>1, <2>1, <2>2 DEF Only, KeptSteps
<1>8. t # <<>> => t[Len(t)] \in Solid
  <2>1. SUFFICES ASSUME t # <<>> PROVE t[Len(t)] \in Solid
    OBVIOUS
  <2>2. s # <<>> /\ s[Len(s)] \in Q
    BY <1>0, <1>7, <2>1
  <2>3. t[Len(t)] = s[Len(s)]
    <3> HIDE DEF Q
    <3> QED
      BY <1>1, <2>2, OnlyLast
  <2> QED
    BY <2>2, <2>3
<1>9. TrimRight(t, {"space"}) = t
  <2>1. t # <<>> => t[Len(t)] \notin {"space"}
    BY <1>0, <1>8
  <2> QED
    BY <1>4, <2>1, NothingAtEnd
<1>10. r # <<>> => r[1] # "space" /\ r[Len(r)] \in Solid
  <2>1. r = TrimLeft(t, {"space"})
    BY <1>2, <1>9 DEF Trim
  <2>2. PICK m \in 1..(Len(t) + 1) :
          /\ TrimLeft(t, {"space"}) = SubSeq(t, m, Len(t))
          /\ m <= Len(t) => t[m] \notin {"space"}
    BY <1>4, TrimLeftIs
  <2>3. r = SubSeq(t, m, Len(t))
    BY <2>1, <2>2
  <2>4. SUFFICES ASSUME r # <<>> PROVE r[1] # "space" /\ r[Len(r)] \in Solid
    OBVIOUS
  <2>5. m <= Len(t) /\ Len(r) = Len(t) - m + 1
    BY <1>4, <2>3, <2>4
  <2>6. r[1] = t[m] /\ r[Len(r)] = t[Len(t)] /\ t # <<>>
    BY <1>4, <2>3, <2>5
  <2> QED
    BY <1>8, <2>2, <2>5, <2>6
<1> QED
  BY <1>3, <1>5, <1>6, <1>10

\* The words and urls of a cleaned message, and the reactions left in it.
LEMMA CleanAccounts ==
    ASSUME NEW s \in Seq(Pieces), ~isBase64Ciphertext(s)
    PROVE  /\ Only(CleanMessageContent(s).cleanText, Plain) = Only(s, Plain)
           /\ Count(CleanMessageContent(s).cleanText, {"mangled"})
                = Count(s, {"dollar"})
           /\ CleanMessageContent(s).reactions
                 + Count(CleanMessageContent(s).cleanText,
                         Reactions \cup {"emoji"})
               = Count(s, Reactions)
<1>1. PICK k : k = StripTrailing(s)
  OBVIOUS
<1>2. PICK r : r = DropLegacy(k)
  OBVIOUS
<1>3. PICK c : c = Inline(r)
  OBVIOUS
<1>d. PICK d : d = RestoreUrls(c)
  OBVIOUS
<1>4. /\ CleanMessageContent(s).cleanText = d
      /\ CleanMessageContent(s).reactions
           = (Count(s, Reactions) - Count(k, Reactions)) + Count(k, {"legacy"})
  BY <1>1, <1>2, <1>3, <1>d DEF CleanMessageContent
<1>5. /\ k \in Seq(Pieces) /\ (k # <<>> => k[Len(k)] \in Solid)
      /\ \A P \in SUBSET Solid : Only(k, P) = Only(s, P)
  BY <1>1, StripTrailingIs
<1>6. /\ r \in Seq(Pieces \ {"legacy"})
      /\ \A P \in SUBSET (Pieces \ {"legacy", "space"}) : Only(r, P) = Only(k, P)
  BY <1>2, <1>5, DropLegacyIs
<1>7. /\ d \in Seq(AllPieces) /\ Len(d) = Len(r) /\ DOMAIN d = DOMAIN r
      /\ \A i \in DOMAIN r : \/ r[i] # "dollar" /\ d[i] = r[i]
                             \/ r[i] = "smile" /\ d[i] = "emoji"
                             \/ r[i] = "dollar" /\ d[i] = "mangled"
  <2>1. /\ c \in Seq((Pieces \ {"legacy"}) \cup {"emoji"})
        /\ Len(c) = Len(r) /\ DOMAIN c = DOMAIN r
        /\ \A i \in DOMAIN r : c[i] = r[i] \/ (r[i] = "smile" /\ c[i] = "emoji")
    BY <1>3, <1>6, InlineIs
  <2>2. /\ d \in Seq(((Pieces \ {"legacy"}) \cup {"emoji"}) \cup {"mangled"})
        /\ Len(d) = Len(c) /\ DOMAIN d = DOMAIN c
        /\ \A i \in DOMAIN c : \/ c[i] # "dollar" /\ d[i] = c[i]
                               \/ c[i] = "dollar" /\ d[i] = "mangled"
    <3>1. c \in Seq((Pieces \ {"legacy"}) \cup {"emoji"})
      BY <2>1
    <3>2. /\ RestoreUrls(c) \in Seq(((Pieces \ {"legacy"}) \cup {"emoji"}) \cup {"mangled"})
          /\ Len(RestoreUrls(c)) = Len(c) /\ DOMAIN RestoreUrls(c) = DOMAIN c
          /\ \A i \in DOMAIN c :
                \/ c[i] # "dollar" /\ RestoreUrls(c)[i] = c[i]
                \/ c[i] = "dollar" /\ RestoreUrls(c)[i] = "mangled"
      BY <3>1, RestoreIs
    <3> QED
      BY <1>d, <3>2
  <2>3. d \in Seq(AllPieces)
    <3>1. ((Pieces \ {"legacy"}) \cup {"emoji"}) \cup {"mangled"}
            \subseteq AllPieces
      BY DEF AllPieces
    <3> QED
      BY <2>2, <3>1
  <2> QED
    BY <2>1, <2>2, <2>3
<1>a. \A i \in DOMAIN r : r[i] \in Pieces \ {"legacy"}
  BY <1>6
<1>8. Only(d, Plain) = Only(r, Plain)
  <2>1. DOMAIN r = 1..Len(d)
    BY <1>6, <1>7
  <2>2. \A i \in 1..Len(d) : /\ d[i] \in Plain <=> r[i] \in Plain
                             /\ d[i] \in Plain => d[i] = r[i]
    BY <1>7, <2>1 DEF Plain, Words
  <2> QED
    BY <1>6, <1>7, <2>2, OnlySame
<1>9. /\ Only(r, Plain) = Only(k, Plain) /\ Only(r, {"smile"}) = Only(k, {"smile"})
      /\ Only(r, {"dollar"}) = Only(k, {"dollar"})
  <2>1. /\ Plain \in SUBSET (Pieces \ {"legacy", "space"})
        /\ {"smile"} \in SUBSET (Pieces \ {"legacy", "space"})
        /\ {"dollar"} \in SUBSET (Pieces \ {"legacy", "space"})
    BY DEF Plain, Words, Urls, Reactions, Pieces
  <2> QED
    BY <1>6, <2>1
<1>10. /\ Count(d, Reactions \cup {"emoji"}) = Count(r, {"smile"})
       /\ Count(d, {"mangled"}) = Count(r, {"dollar"})
  <2>1. ASSUME NEW i \in DOMAIN r
        PROVE  /\ d[i] \in Reactions \cup {"emoji"} <=> r[i] \in {"smile"}
               /\ d[i] \in {"mangled"} <=> r[i] \in {"dollar"}
    <3>1. r[i] \in Pieces \ {"legacy"}
      BY <1>a
    <3> QED
      BY <1>7, <3>1 DEF Pieces, Words, Urls, Reactions
  <2>2. /\ {i \in DOMAIN d : d[i] \in Reactions \cup {"emoji"}}
             = {i \in DOMAIN r : r[i] \in {"smile"}}
        /\ {i \in DOMAIN d : d[i] \in {"mangled"}}
             = {i \in DOMAIN r : r[i] \in {"dollar"}}
    BY <1>7, <2>1
  <2> QED
    BY <2>2 DEF Count
<1>11. Count(r, {"smile"}) = Count(k, {"smile"})
  <2>1. Count(r, {"smile"}) = Len(Only(r, {"smile"}))
    BY <1>6, CountLen
  <2>2. Count(k, {"smile"}) = Len(Only(k, {"smile"}))
    BY <1>5, CountLen
  <2> QED
    BY <1>9, <2>1, <2>2
<1>b. Count(r, {"dollar"}) = Count(s, {"dollar"})
  <2>1. Count(r, {"dollar"}) = Len(Only(r, {"dollar"}))
    BY <1>6, CountLen
  <2>2. Count(s, {"dollar"}) = Len(Only(s, {"dollar"}))
    BY CountLen
  <2>3. Only(k, {"dollar"}) = Only(s, {"dollar"})
    <3>1. {"dollar"} \in SUBSET Solid
      BY DEF Solid, Urls
    <3> QED
      BY <1>5, <3>1
  <2> QED
    BY <1>9, <2>1, <2>2, <2>3
<1>c. Only(k, Plain) = Only(s, Plain)
  <2>1. Plain \in SUBSET Solid
    BY DEF Plain, Solid, Urls
  <2> QED
    BY <1>5, <2>1
<1>12. Count(k, Reactions) = Count(k, {"smile"}) + Count(k, {"legacy"})
  BY <1>5, CountTwo DEF Reactions
<1>13. /\ Count(s, Reactions) \in Nat /\ Count(k, {"smile"}) \in Nat
       /\ Count(k, {"legacy"}) \in Nat
  BY <1>5, CountLen
<1>14. (Count(s, Reactions) - Count(k, Reactions)) + Count(k, {"legacy"})
         + Count(d, Reactions \cup {"emoji"}) = Count(s, Reactions)
  BY <1>10, <1>11, <1>12, <1>13
<1> QED
  BY <1>4, <1>8, <1>9, <1>10, <1>14, <1>b, <1>c

\* A text without legacy codes, and without a blank or a reaction at its ends,
\* is cleaned without finding a reaction.
LEMMA NothingToStrip ==
    ASSUME NEW c \in Seq(AllPieces \ {"legacy"}),
           c # <<>> => c[1] # "space" /\ c[Len(c)] \notin Reactions \cup {"space"}
    PROVE  CleanMessageContent(c).reactions = 0
<1>1. Trim(c) = c
  <2>1. c # <<>> => c[Len(c)] \notin {"space"}
    OBVIOUS
  <2>2. c # <<>> => c[1] \notin {"space"}
    OBVIOUS
  <2>3. TrimRight(c, {"space"}) = c
    BY <2>1, NothingAtEnd
  <2>4. TrimLeft(c, {"space"}) = c
    BY <2>2, NothingAtStart
  <2> QED
    BY <2>3, <2>4 DEF Trim
<1>2. TrimRight(c, Reactions \cup {"space"}) = c
  <2> DEFINE Q == Reactions \cup {"space"}
  <2>1. c # <<>> => c[Len(c)] \notin Q
    OBVIOUS
  <2> HIDE DEF Q
  <2>2. TrimRight(c, Q) = c
    BY <2>1, NothingAtEnd
  <2> QED
    BY <2>2 DEF Q
<1>3. StripTrailing(c) = c
  BY <1>1, <1>2 DEF StripTrailing
<1>4. Count(c, {"legacy"}) = 0
  <2>1. \A i \in DOMAIN c : c[i] # "legacy"
    OBVIOUS
  <2>2. {i \in DOMAIN c : c[i] \in {"legacy"}} = {}
    BY <2>1
  <2> QED
    BY <2>2, FS_EmptySet DEF Count
<1>5. Count(c, Reactions) \in Nat
  BY CountLen
<1>6. CASE isBase64Ciphertext(c)
  BY <1>6 DEF CleanMessageContent, Notice
<1>7. CASE ~isBase64Ciphertext(c)
  <2>1. CleanMessageContent(c).reactions
          = (Count(c, Reactions) - Count(c, Reactions)) + Count(c, {"legacy"})
    BY <1>3, <1>7 DEF CleanMessageContent
  <2> QED
    BY <1>4, <1>5, <2>1
<1> QED
  BY <1>6, <1>7

\* What cleaning makes of a message is such a text.
LEMMA CleanAgain ==
    ASSUME NEW s \in Seq(Pieces)
    PROVE  CleanMessageContent(CleanMessageContent(s).cleanText).reactions = 0
<1>1. CASE isBase64Ciphertext(s)
  <2>1. PICK c : c = <<"notice">>
    OBVIOUS
  <2>2. CleanMessageContent(s).cleanText = c
    BY <1>1, <2>1 DEF CleanMessageContent, Notice
  <2>3. "notice" \in AllPieces \ {"legacy"}
    BY DEF AllPieces
  <2>4. c \in Seq(AllPieces \ {"legacy"}) /\ Len(c) = 1 /\ c[1] = "notice"
    BY <2>1, <2>3
  <2>5. c[1] # "space" /\ c[Len(c)] \notin Reactions \cup {"space"}
    BY <2>4 DEF Reactions
  <2> QED
    BY <2>2, <2>4, <2>5, NothingToStrip
<1>2. CASE ~isBase64Ciphertext(s)
  <2>1. PICK k : k = StripTrailing(s)
    OBVIOUS
  <2>2. PICK r : r = DropLegacy(k)
    OBVIOUS
  <2>3. PICK c : c = Inline(r)
    OBVIOUS
  <2>4. PICK d : d = RestoreUrls(c)
    OBVIOUS
  <2>5. CleanMessageContent(s).cleanText = d
    BY <1>2, <2>1, <2>2, <2>3, <2>4 DEF CleanMessageContent
  <2>6. k \in Seq(Pieces) /\ (k # <<>> => k[Len(k)] \in Solid)
    BY <2>1, StripTrailingIs
  <2>7. /\ r \in Seq(Pieces \ {"legacy"})
        /\ r # <<>> => r[1] # "space" /\ r[Len(r)] \in Solid
    BY <2>2, <2>6, DropLegacyIs
  <2>8. /\ c \in Seq((Pieces \ {"legacy"}) \cup {"emoji"})
        /\ Len(c) = Len(r) /\ DOMAIN c = DOMAIN r
        /\ \A i \in DOMAIN r : c[i] = r[i] \/ (r[i] = "smile" /\ c[i] = "emoji")
    BY <2>3, <2>7, InlineIs
  <2>9. /\ d \in Seq(((Pieces \ {"legacy"}) \cup {"emoji"}) \cup {"mangled"})
        /\ Len(d) = Len(c) /\ DOMAIN d = DOMAIN c
        /\ \A i \in DOMAIN c : d[i] = c[i] \/ d[i] = "mangled"
    <3>1. /\ d \in Seq(((Pieces \ {"legacy"}) \cup {"emoji"}) \cup {"mangled"})
          /\ Len(d) = Len(c) /\ DOMAIN d = DOMAIN c
          /\ \A i \in DOMAIN c : \/ c[i] # "dollar" /\ d[i] = c[i]
                                 \/ c[i] = "dollar" /\ d[i] = "mangled"
      BY <2>4, <2>8, RestoreIs
    <3> QED
      BY <3>1
  <2>10. d \in Seq(AllPieces \ {"legacy"})
    <3>1. ((Pieces \ {"legacy"}) \cup {"emoji"}) \cup {"mangled"}
            \subseteq AllPieces \ {"legacy"}
      BY DEF AllPieces
    <3> QED
      BY <2>9, <3>1
  <2>11. d # <<>> => d[1] # "space" /\ d[Len(d)] \notin Reactions \cup {"space"}
    <3>1. SUFFICES ASSUME d # <<>>
                   PROVE  d[1] # "space" /\ d[Len(d)] \notin Reactions \cup {"space"}
      OBVIOUS
    <3>2. r # <<>> /\ 1 \in DOMAIN r /\ Len(d) \in DOMAIN r /\ Len(d) = Len(r)
      BY <2>7, <2>8, <2>9, <3>1
    <3>3. r[1] # "space" /\ r[Len(d)] \in Solid
      BY <2>7, <3>2
    <3>4. \A i \in DOMAIN r : d[i] \in {r[i], "emoji", "mangled"}
      BY <2>8, <2>9
    <3>5. d[1] # "space"
      BY <3>2, <3>3, <3>4
    <3>6. d[Len(d)] \in Solid \cup {"emoji", "mangled"}
      BY <3>2, <3>3, <3>4
    <3> QED
      BY <3>5, <3>6 DEF Solid, Words, Urls, Reactions
  <2> QED
    BY <2>5, <2>10, <2>11, NothingToStrip
<1> QED
  BY <1>1, <1>2

\* For every message of any length that is not taken for ciphertext: the words
\* and plain urls of the cleaned text are those of the message in their order,
\* each url with a dollar is there, changed by the replacement that puts it
\* back, and every reaction of the message is in the text, as it was or as an
\* emoji, or in the counts, and not in both.
THEOREM PiecesAccountedHolds == PartsSpec => []PiecesAccounted
<1>1. NormInv => PiecesAccounted
  BY CleanAccounts DEF NormInv, PiecesAccounted, Plain
<1> QED
  BY <1>1, NormInvariant, PTL

\* For every message of any length: in a cleaned text, ciphertext or not, the
\* second cleaning of the send path finds no reaction.
THEOREM CleanedOnceHolds == PartsSpec => []CleanedOnce
<1>1. NormInv => CleanedOnce
  BY CleanAgain DEF NormInv, CleanedOnce
<1> QED
  BY <1>1, NormInvariant, PTL

-----------------------------------------------------------------------------
(***************************************************************************)
(* From Zalo's page to the queue.                                          *)
(***************************************************************************)

\* What the session carries: calls of the two bindings, replies and errors.
Wire ==
    [kind : {"event", "chunk"}, msgs : SUBSET Messages, sync : Scans \cup {"none"}]
      \cup [kind : {"reply", "error"}, msgs : SUBSET Messages, sync : Scans]

ScanRecord ==
    [on : BOOLEAN, todo : SUBSET Messages, all : SUBSET Messages,
     skipped : SUBSET Messages, bound : BOOLEAN]

HookTypeOK ==
    /\ up \in BOOLEAN /\ listeners \in Nat
    /\ bound \subseteq fn
    /\ flushTimer \in {"off", "armed"}
    /\ wire \in Seq(Wire)
    /\ store \subseteq Messages /\ eventBuffer \subseteq Messages
    /\ call \in [Scans -> {"idle", "awaiting", "done", "failed"}]
    /\ scan \in [Scans -> ScanRecord]

\* Nothing is heard without a listener in the hub.
ListenerHeard == heard # {} => listeners > 0

\* A message that was heard and is still in the page belongs to a session that
\* has the binding, and a timer will flush it.
HeardIsSafe ==
    \A m \in heard :
        \/ m \in enqueued \cup gone
        \/ \E i \in DOMAIN wire : wire[i].kind = "event" /\ m \in wire[i].msgs
        \/ m \in eventBuffer /\ flushTimer = "armed" /\ "event" \in bound

\* The session's s holds no summary of the scan y.
NoReply(s, y) == \A i \in DOMAIN s : s[i].kind = "reply" => s[i].sync # y

\* m is in the queue Q or in a chunk that is taken before what is at i of s.
Ahead(Q, s, m, i) ==
    m \in Q \/ \E j \in DOMAIN s : j < i /\ s[j].kind = "chunk" /\ m \in s[j].msgs

\* What the scan y is to hand over: the store but for what it skipped.
Owed(y) == scan[y].all \ scan[y].skipped

\* A scan's summary follows its chunks on the wire, and until then what it has
\* not sent it has still to read.
ScanSafe(y) ==
    /\ call[y] = "idle" => ~scan[y].on /\ NoReply(wire, y)
    /\ scan[y].on => NoReply(wire, y)
    /\ call[y] = "awaiting" => up
    /\ call[y] = "awaiting" /\ scan[y].bound =>
          /\ "chunk" \in bound
          /\ scan[y].on => \A m \in Owed(y) \ scan[y].todo :
                              Ahead(enqueued, wire, m, Len(wire) + 1)
          /\ \A i \in DOMAIN wire : wire[i].kind = "reply" /\ wire[i].sync = y =>
                 \A m \in Owed(y) : Ahead(enqueued, wire, m, i)
    /\ call[y] = "done" /\ scan[y].bound => Owed(y) \subseteq enqueued

HookInv ==
    /\ HookTypeOK
    /\ ListenerHeard
    /\ HeardIsSafe
    /\ \A y \in Scans : ScanSafe(y)

\* What is appended to the wire comes after all that is there.
LEMMA WireGrows ==
    ASSUME NEW s \in Seq(Wire), NEW t \in Seq(Wire)
    PROVE  /\ s \o t \in Seq(Wire)
           /\ Len(s \o t) = Len(s) + Len(t)
           /\ \A i \in DOMAIN s : i \in DOMAIN (s \o t) /\ (s \o t)[i] = s[i]
           /\ \A i \in DOMAIN t : /\ Len(s) + i \in DOMAIN (s \o t)
                                  /\ (s \o t)[Len(s) + i] = t[i]
           /\ \A i \in DOMAIN (s \o t) :
                 i \in DOMAIN s \/ (i > Len(s) /\ i - Len(s) \in DOMAIN t)
OBVIOUS

\* Each scan that a new document cuts off is answered with one error.
LEMMA ErrorsTyped ==
    ASSUME NEW S \in SUBSET Scans
    PROVE  /\ SetToSeq({Sent("error", {}, y) : y \in S}) \in Seq(Wire)
           /\ \A i \in DOMAIN SetToSeq({Sent("error", {}, y) : y \in S}) :
                 SetToSeq({Sent("error", {}, y) : y \in S})[i].kind = "error"
<1> DEFINE E == {Sent("error", {}, y) : y \in S}
           f == SetToSeq(E)
<1>1. E \subseteq Wire /\ \A e \in E : e.kind = "error"
  BY DEF Sent, Wire
<1>2. IsFiniteSet(E)
  <2>1. IsFiniteSet(S)
    BY HookAssumption, FS_Subset DEF HookAssumption
  <2>2. [y \in S |-> Sent("error", {}, y)] \in Surjection(S, E)
    BY DEF Surjection
  <2> QED
    BY <2>1, <2>2, FS_Surjection
<1> HIDE DEF E
<1>3. PICK g : g \in Bijection(1..Cardinality(E), E)
  BY <1>2, FS_CardinalityType DEF ExistsBijection
<1>4. g \in [1..Cardinality(E) -> E] /\ IsInjective(g)
  BY <1>3 DEF Bijection, Injection
<1>5. f \in [1..Cardinality(E) -> E]
  BY <1>4 DEF SetToSeq
<1>6. Cardinality(E) \in Nat
  BY <1>2, FS_CardinalityType
<1>7. f \in Seq(Wire) /\ \A i \in DOMAIN f : f[i].kind = "error"
  <2> HIDE DEF f
  <2> QED
    BY <1>1, <1>5, <1>6
<1> QED
  BY <1>7 DEF E
\* A single item, and what calling a binding's function puts on the wire.
LEMMA OneItem ==
    ASSUME NEW w \in Wire
    PROVE  <<w>> \in Seq(Wire) /\ DOMAIN <<w>> = {1} /\ <<w>>[1] = w
OBVIOUS

LEMMA EmitTyped ==
    ASSUME NEW name \in {"event", "chunk"}, NEW msgs \in SUBSET Messages,
           NEW y \in Scans \cup {"none"}
    PROVE  /\ Emit(name, msgs, y) \in Seq(Wire)
           /\ \A i \in DOMAIN Emit(name, msgs, y) :
                 Emit(name, msgs, y)[i] = Sent(name, msgs, y) /\ name \in bound
<1>1. Sent(name, msgs, y) \in Wire
  BY DEF Sent, Wire
<1>2. /\ <<Sent(name, msgs, y)>> \in Seq(Wire)
      /\ DOMAIN <<Sent(name, msgs, y)>> = {1}
      /\ <<Sent(name, msgs, y)>>[1] = Sent(name, msgs, y)
  BY <1>1, OneItem
<1>3. CASE name \in fn /\ name \in bound
  BY <1>2, <1>3 DEF Emit
<1>4. CASE ~ (name \in fn /\ name \in bound)
  BY <1>4 DEF Emit
<1> QED
  BY <1>3, <1>4

LEMMA ReplyTyped ==
    ASSUME NEW y \in Scans
    PROVE  Sent("reply", {}, y) \in Wire /\ <<Sent("reply", {}, y)>> \in Seq(Wire)
<1>1. Sent("reply", {}, y) \in Wire
  BY DEF Sent, Wire
<1> QED
  BY <1>1, OneItem

\* What the end of a scan sends: the summary, if there is a session.
LEMMA EndTyped ==
    ASSUME NEW y \in Scans
    PROVE  LET u == IF up THEN <<Sent("reply", {}, y)>> ELSE <<>>
           IN  u \in Seq(Wire) /\ \A i \in DOMAIN u : u[i] = Sent("reply", {}, y)
<1> DEFINE r == <<Sent("reply", {}, y)>>
           u == IF up THEN r ELSE <<>>
<1>1. r \in Seq(Wire) /\ \A i \in DOMAIN r : r[i] = Sent("reply", {}, y)
  BY ReplyTyped, OneItem
<1>2. u \in Seq(Wire) /\ \A i \in DOMAIN u : u[i] = Sent("reply", {}, y)
  <2> HIDE DEF r
  <2>1. CASE up
    BY <1>1, <2>1
  <2>2. CASE ~up
    BY <2>2
  <2> QED
    BY <2>1, <2>2
<1> QED
  BY <1>2

\* The hook's types, step by step.
LEMMA HookTypes ==
    ASSUME HookTypeOK, HookNext
    PROVE  HookTypeOK'
<1> DEFINE Bools == {"idle", "awaiting", "done", "failed"}
<1>1. CASE SessionOpens
  BY <1>1 DEF SessionOpens, HookTypeOK, setup, page
<1>2. CASE SessionCloses
  <2>1. wire' \in Seq(Wire) /\ call' \in [Scans -> Bools]
    BY <1>2 DEF SessionCloses, HookTypeOK
  <2> QED
    BY <1>2, <2>1 DEF SessionCloses, HookTypeOK, page
<1>3. CASE Navigate
  <2>1. PICK t \in Seq(Wire) : wire' = wire \o t
    BY <1>3, ErrorsTyped DEF Navigate
  <2>2. wire' \in Seq(Wire)
    BY <2>1, WireGrows DEF HookTypeOK
  <2>3. scan' \in [Scans -> ScanRecord]
    BY <1>3 DEF Navigate, HookTypeOK, ScanRecord
  <2> QED
    BY <1>3, <2>2, <2>3 DEF Navigate, HookTypeOK, session, setup
<1>4. CASE BindEvent \/ BindChunk
  BY <1>4 DEF BindEvent, BindChunk, AddBinding, HookTypeOK, past
<1>5. CASE AddScript \/ EvaluateHook \/ SetupFails \/ Retry
  BY <1>5 DEF AddScript, EvaluateHook, SetupFails, Retry, HookTypeOK,
              session, page
<1>6. ASSUME NEW m \in Messages, Write(m) PROVE HookTypeOK'
  <2>1. /\ eventBuffer' \subseteq Messages /\ store' \subseteq Messages
        /\ flushTimer' \in {"off", "armed"}
    BY <1>6 DEF Write, HookTypeOK
  <2>2. UNCHANGED <<up, listeners, bound, fn, wire, call, scan>>
    BY <1>6 DEF Write, session, setup
  <2> QED
    BY <2>1, <2>2 DEF HookTypeOK
<1>7. CASE FlushBuffer
  <2>1. Emit("event", eventBuffer, "none") \in Seq(Wire)
    BY EmitTyped DEF HookTypeOK
  <2>2. wire' \in Seq(Wire)
    BY <1>7, <2>1, WireGrows DEF FlushBuffer, HookTypeOK
  <2>3. eventBuffer' \subseteq Messages /\ flushTimer' = "off"
    BY <1>7 DEF FlushBuffer, HookTypeOK
  <2>4. UNCHANGED <<up, listeners, bound, fn, store, call, scan>>
    BY <1>7 DEF FlushBuffer, session, setup
  <2> QED
    BY <2>2, <2>3, <2>4 DEF HookTypeOK
<1>8. CASE Receive
  <2>1. wire \in Seq(Wire) /\ wire # <<>> /\ wire' = Tail(wire)
    BY <1>8 DEF Receive, HookTypeOK
  <2>2. wire' \in Seq(Wire)
    BY <2>1
  <2>3. call' \in [Scans -> Bools]
    BY <1>8 DEF Receive, HookTypeOK
  <2>4. UNCHANGED <<up, listeners, bound, fn, eventBuffer, flushTimer, store, scan>>
    BY <1>8 DEF Receive, session, setup, page
  <2> QED
    BY <2>2, <2>3, <2>4 DEF HookTypeOK
<1>9. ASSUME NEW y \in Scans, StartScan(y) PROVE HookTypeOK'
  <2>1. call' \in [Scans -> Bools]
    BY <1>9 DEF StartScan, HookTypeOK
  <2>2. scan' \in [Scans -> ScanRecord]
    <3> DEFINE b == "chunk" \in bound
               r == [on |-> TRUE, todo |-> store, all |-> store,
                     skipped |-> {}, bound |-> b]
    <3>1. b \in BOOLEAN
      OBVIOUS
    <3>2. scan' = scan \/ scan' = [scan EXCEPT ![y] = r]
      BY <1>9 DEF StartScan
    <3> HIDE DEF b
    <3>3. r \in ScanRecord
      BY <3>1 DEF HookTypeOK, ScanRecord
    <3> HIDE DEF r
    <3> QED
      BY <3>2, <3>3 DEF HookTypeOK
  <2> QED
    BY <1>9, <2>1, <2>2 DEF StartScan, HookTypeOK, session, setup, page
<1>10. ASSUME NEW y \in Scans, ScanEnd(y) PROVE HookTypeOK'
  <2> DEFINE u == IF up THEN <<Sent("reply", {}, y)>> ELSE <<>>
  <2>1. u \in Seq(Wire)
    BY EndTyped
  <2>2. wire' = wire \o u
    BY <1>10 DEF ScanEnd
  <2> HIDE DEF u
  <2>3. wire' \in Seq(Wire)
    BY <2>1, <2>2, WireGrows DEF HookTypeOK
  <2>4. scan' \in [Scans -> ScanRecord]
    BY <1>10 DEF ScanEnd, HookTypeOK, ScanRecord
  <2> QED
    BY <1>10, <2>3, <2>4 DEF ScanEnd, HookTypeOK, session, setup, page
<1>11. ASSUME NEW y \in Scans, NEW c \in SUBSET scan[y].todo, ScanChunk(y, c)
       PROVE  HookTypeOK'
  <2>1. Emit("chunk", c, y) \in Seq(Wire)
    <3>1. c \in SUBSET Messages
      BY DEF HookTypeOK, ScanRecord
    <3> QED
      BY <3>1, EmitTyped
  <2>2. wire' \in Seq(Wire)
    BY <1>11, <2>1, WireGrows DEF ScanChunk, HookTypeOK
  <2>3. scan' \in [Scans -> ScanRecord]
    BY <1>11 DEF ScanChunk, HookTypeOK, ScanRecord
  <2> QED
    BY <1>11, <2>2, <2>3 DEF ScanChunk, HookTypeOK, session, setup, page
<1>12. ASSUME NEW y \in Scans, SyncTimeout(y) PROVE HookTypeOK'
  BY <1>12 DEF SyncTimeout, HookTypeOK, session, setup, page
<1>13. ASSUME NEW y \in Scans, NEW c \in SUBSET scan[y].todo, ScanSkips(y, c)
       PROVE  HookTypeOK'
  <2>1. scan' \in [Scans -> ScanRecord]
    BY <1>13 DEF ScanSkips, HookTypeOK, ScanRecord
  <2> QED
    BY <1>13, <2>1 DEF ScanSkips, HookTypeOK, session, setup, page
<1> QED
  BY <1>1, <1>2, <1>3, <1>4, <1>5, <1>6, <1>7, <1>8, <1>9, <1>10, <1>11, <1>12,
     <1>13 DEF HookNext

\* A listener that was registered stays.
LEMMA ListenerHeardStep ==
    ASSUME HookTypeOK, ListenerHeard, HookNext
    PROVE  ListenerHeard'
<1>0. listeners \in Nat
  BY DEF HookTypeOK
<1>1. CASE BindChunk
  BY <1>0, <1>1 DEF BindChunk, AddBinding, ListenerHeard, past
<1>2. ASSUME NEW m \in Messages, Write(m) PROVE ListenerHeard'
  BY <1>2 DEF Write, ListenerHeard, setup
<1>3. CASE UNCHANGED <<listeners, heard>>
  BY <1>3 DEF ListenerHeard
<1>4. ASSUME NEW y \in Scans,
             \/ StartScan(y) \/ ScanEnd(y) \/ SyncTimeout(y)
             \/ \E c \in SUBSET scan[y].todo : ScanChunk(y, c) \/ ScanSkips(y, c)
      PROVE  ListenerHeard'
  BY <1>4, <1>3 DEF StartScan, ScanEnd, SyncTimeout, ScanChunk, ScanSkips, setup, past
<1>5. ASSUME \/ SessionOpens \/ SessionCloses \/ Navigate \/ BindEvent \/ AddScript
             \/ EvaluateHook \/ SetupFails \/ Retry \/ FlushBuffer \/ Receive
      PROVE  ListenerHeard'
  BY <1>5, <1>3 DEF SessionOpens, SessionCloses, Navigate, BindEvent, AddBinding,
     AddScript, EvaluateHook, SetupFails, Retry, FlushBuffer, Receive, setup, past
<1> QED
  BY <1>1, <1>2, <1>4, <1>5 DEF HookNext

OnWire(m) == \E i \in DOMAIN wire : wire[i].kind = "event" /\ m \in wire[i].msgs

\* What is on the wire stays there when more is sent.
LEMMA StaysOnWire ==
    ASSUME wire \in Seq(Wire), NEW t \in Seq(Wire), wire' = wire \o t,
           NEW m, OnWire(m)
    PROVE  OnWire(m)'
<1>1. PICK i \in DOMAIN wire : wire[i].kind = "event" /\ m \in wire[i].msgs
  BY DEF OnWire
<1>2. i \in DOMAIN wire' /\ wire'[i] = wire[i]
  BY WireGrows
<1> QED
  BY <1>1, <1>2 DEF OnWire

\* Every step but the end of the session and the hub's taking only sends more.
LEMMA WireAppends ==
    ASSUME HookTypeOK, HookNext, ~SessionCloses, ~Receive
    PROVE  \E t \in Seq(Wire) : wire' = wire \o t
<1>0. wire \in Seq(Wire) /\ <<>> \in Seq(Wire) /\ wire = wire \o <<>>
  BY DEF HookTypeOK
<1>1. CASE UNCHANGED wire
  BY <1>0, <1>1
<1>2. CASE Navigate
  BY <1>2, ErrorsTyped DEF Navigate
<1>3. CASE FlushBuffer
  <2>1. Emit("event", eventBuffer, "none") \in Seq(Wire)
    BY EmitTyped DEF HookTypeOK
  <2> QED
    BY <1>3, <2>1 DEF FlushBuffer
<1>4. ASSUME NEW y \in Scans, ScanEnd(y) PROVE \E t \in Seq(Wire) : wire' = wire \o t
  BY <1>4, EndTyped DEF ScanEnd
<1>5. ASSUME NEW y \in Scans, NEW c \in SUBSET scan[y].todo, ScanChunk(y, c)
      PROVE  \E t \in Seq(Wire) : wire' = wire \o t
  <2>1. c \in SUBSET Messages
    BY DEF HookTypeOK, ScanRecord
  <2>2. Emit("chunk", c, y) \in Seq(Wire)
    BY <2>1, EmitTyped
  <2> QED
    BY <1>5, <2>2 DEF ScanChunk
<1> QED
  BY <1>1, <1>2, <1>3, <1>4, <1>5
     DEF HookNext, SessionOpens, BindEvent, BindChunk, AddBinding, AddScript,
         EvaluateHook, SetupFails, Retry, Write, StartScan, SyncTimeout, ScanSkips

\* A message that was heard stays safe: step by step.
LEMMA HeardIsSafeStep ==
    ASSUME HookTypeOK, ListenerHeard, HeardIsSafe, HookNext
    PROVE  HeardIsSafe'
<1>0. wire \in Seq(Wire) /\ bound \subseteq fn /\ eventBuffer \subseteq Messages
  BY DEF HookTypeOK
<1> DEFINE Held(m) == m \in eventBuffer /\ flushTimer = "armed" /\ "event" \in bound
<1>1. \A m \in heard : m \in enqueued \cup gone \/ OnWire(m) \/ Held(m)
  BY DEF HeardIsSafe, OnWire
<1>2. SUFFICES ASSUME NEW m \in heard'
               PROVE  m \in (enqueued \cup gone)' \/ OnWire(m)' \/ Held(m)'
  BY DEF HeardIsSafe, OnWire
<1>3. CASE SessionCloses
  <2>1. m \in enqueued \cup gone \/ OnWire(m) \/ m \in eventBuffer
    BY <1>1, <1>2, <1>3 DEF SessionCloses
  <2>2. OnWire(m) => m \in UNION {wire[i].msgs : i \in DOMAIN wire}
    BY DEF OnWire
  <2> QED
    BY <1>3, <2>1, <2>2 DEF SessionCloses
<1>4. CASE Receive
  <2>1. /\ wire # <<>> /\ wire' = Tail(wire) /\ enqueued \subseteq enqueued'
        /\ UNCHANGED <<eventBuffer, flushTimer, bound, gone, heard>>
    BY <1>4 DEF Receive, session, page, past
  <2>2. CASE m \in enqueued \cup gone \/ Held(m)
    BY <2>1, <2>2
  <2>3. CASE OnWire(m)
    <3>1. PICK i \in DOMAIN wire : wire[i].kind = "event" /\ m \in wire[i].msgs
      BY <2>3 DEF OnWire
    <3>2. CASE i = 1
      <4>1. Head(wire).kind = "event" /\ m \in Head(wire).msgs /\ listeners > 0
        BY <1>0, <1>2, <2>1, <3>1, <3>2 DEF ListenerHeard
      <4> QED
        BY <1>4, <4>1 DEF Receive
    <3>3. CASE i # 1
      <4>1. i - 1 \in DOMAIN wire' /\ wire'[i - 1] = wire[i]
        BY <1>0, <2>1, <3>1, <3>3
      <4> QED
        BY <3>1, <4>1 DEF OnWire
    <3> QED
      BY <3>2, <3>3
  <2> QED
    BY <1>1, <1>2, <2>1, <2>2, <2>3
<1>5. CASE ~SessionCloses /\ ~Receive
  <2>1. PICK t \in Seq(Wire) : wire' = wire \o t
    BY <1>5, WireAppends
  <2>2. OnWire(m) => OnWire(m)'
    BY <1>0, <2>1, StaysOnWire
  <2>3. CASE Navigate
    <3>1. m \in enqueued \cup gone \/ OnWire(m) \/ m \in eventBuffer
      BY <1>1, <1>2, <2>3 DEF Navigate
    <3> QED
      BY <2>2, <2>3, <3>1 DEF Navigate
  <2>4. CASE FlushBuffer
    <3>1. UNCHANGED <<enqueued, gone, heard>>
      BY <2>4 DEF FlushBuffer, past
    <3>2. CASE Held(m)
      <4> DEFINE e == Sent("event", eventBuffer, "none")
      <4>1. e \in Wire /\ e.kind = "event" /\ m \in e.msgs
        BY <1>0, <3>2 DEF Sent, Wire
      <4>2. Emit("event", eventBuffer, "none") = <<e>>
        BY <1>0, <3>2 DEF Emit
      <4>3. wire' = wire \o <<e>>
        BY <2>4, <4>2 DEF FlushBuffer
      <4> HIDE DEF e
      <4>4. Len(wire) + 1 \in DOMAIN wire' /\ wire'[Len(wire) + 1] = e
        BY <1>0, <4>1, <4>3
      <4> QED
        BY <4>1, <4>4 DEF OnWire
    <3> QED
      BY <1>1, <1>2, <2>2, <3>1, <3>2
  <2>5. ASSUME NEW n \in Messages, Write(n)
        PROVE  m \in (enqueued \cup gone)' \/ OnWire(m)' \/ Held(m)'
    <3>1. /\ UNCHANGED <<enqueued, gone, bound>>
          /\ eventBuffer \subseteq eventBuffer'
          /\ flushTimer = "armed" => flushTimer' = "armed"
      BY <2>5 DEF Write, session
    <3>2. CASE m \in heard
      BY <1>1, <2>2, <3>1, <3>2
    <3>3. CASE m \notin heard
      <4>1. m = n /\ hooked /\ "event" \in bound
        BY <1>2, <2>5, <3>3 DEF Write
      <4>2. m \in eventBuffer' /\ flushTimer' = "armed"
        BY <2>5, <4>1 DEF Write, HookTypeOK
      <4> QED
        BY <3>1, <4>1, <4>2
    <3> QED
      BY <3>2, <3>3
  <2>6. CASE /\ UNCHANGED <<enqueued, gone, heard, eventBuffer, flushTimer>>
             /\ bound \subseteq bound'
    BY <1>1, <1>2, <2>2, <2>6
  <2>7. ASSUME NEW y \in Scans,
               \/ StartScan(y) \/ ScanEnd(y) \/ SyncTimeout(y)
               \/ \E c \in SUBSET scan[y].todo : ScanChunk(y, c) \/ ScanSkips(y, c)
        PROVE  /\ UNCHANGED <<enqueued, gone, heard, eventBuffer, flushTimer>>
               /\ bound \subseteq bound'
    BY <2>7 DEF StartScan, ScanEnd, SyncTimeout, ScanChunk, ScanSkips, session,
                page, past
  <2>8. ASSUME SessionOpens \/ BindEvent \/ BindChunk \/ AddScript \/ EvaluateHook
               \/ SetupFails \/ Retry
        PROVE  /\ UNCHANGED <<enqueued, gone, heard, eventBuffer, flushTimer>>
               /\ bound \subseteq bound'
    BY <2>8 DEF SessionOpens, BindEvent, BindChunk, AddBinding, AddScript,
                EvaluateHook, SetupFails, Retry, session, page, past
  <2> QED
    BY <1>5, <2>3, <2>4, <2>5, <2>6, <2>7, <2>8 DEF HookNext
<1> QED
  BY <1>3, <1>4, <1>5

LEMMA AheadGrows ==
    ASSUME NEW s \in Seq(Wire), NEW t \in Seq(Wire), NEW Q, NEW R, Q \subseteq R,
           NEW m, NEW i \in Int, NEW k \in Int, i <= k, Ahead(Q, s, m, i)
    PROVE  Ahead(R, s \o t, m, k)
<1>1. CASE m \in Q
  BY <1>1 DEF Ahead
<1>2. CASE m \notin Q
  <2>1. PICK j \in DOMAIN s : j < i /\ s[j].kind = "chunk" /\ m \in s[j].msgs
    BY <1>2 DEF Ahead
  <2>2. j \in DOMAIN (s \o t) /\ (s \o t)[j] = s[j] /\ j \in Nat
    BY WireGrows
  <2> QED
    BY <2>1, <2>2 DEF Ahead
<1> QED
  BY <1>1, <1>2

LEMMA NoReplyGrows ==
    ASSUME NEW s \in Seq(Wire), NEW t \in Seq(Wire), NEW y,
           NoReply(s, y), NoReply(t, y)
    PROVE  NoReply(s \o t, y)
<1> SUFFICES ASSUME NEW i \in DOMAIN (s \o t), (s \o t)[i].kind = "reply"
             PROVE  (s \o t)[i].sync # y
  BY DEF NoReply
<1>1. CASE i \in DOMAIN s
  BY <1>1, WireGrows DEF NoReply
<1>2. CASE i > Len(s) /\ i - Len(s) \in DOMAIN t
  <2>1. (s \o t)[i] = t[i - Len(s)]
    BY <1>2
  <2> QED
    BY <1>2, <2>1 DEF NoReply
<1> QED
  BY <1>1, <1>2, WireGrows

\* A scan that a step does not touch: others may send, nobody answers for it.
LEMMA ScanUntouched ==
    ASSUME HookTypeOK, NEW z \in Scans, ScanSafe(z),
           NEW t \in Seq(Wire), wire' = wire \o t, NoReply(t, z),
           call'[z] = call[z], up => up', bound \subseteq bound',
           enqueued \subseteq enqueued',
           scan'[z].all = scan[z].all, scan'[z].bound = scan[z].bound,
           scan'[z].skipped = scan[z].skipped,
           scan'[z].todo = scan[z].todo, scan'[z].on => scan[z].on
    PROVE  ScanSafe(z)'
<1>0. wire \in Seq(Wire) /\ wire' \in Seq(Wire) /\ Len(wire') = Len(wire) + Len(t)
      /\ Len(t) \in Nat /\ Len(wire) \in Nat
  BY WireGrows DEF HookTypeOK
<1>a. Owed(z)' = Owed(z)
  BY DEF Owed
<1>1. NoReply(wire, z) => NoReply(wire', z)
  BY <1>0, NoReplyGrows
<1>2. ASSUME call'[z] = "awaiting" /\ scan'[z].bound, scan'[z].on,
             NEW m \in Owed(z) \ scan[z].todo
      PROVE  Ahead(enqueued', wire', m, Len(wire') + 1)
  <2>1. Ahead(enqueued, wire, m, Len(wire) + 1)
    BY <1>2 DEF ScanSafe
  <2>2. Len(wire) + 1 <= Len(wire') + 1 /\ Len(wire) + 1 \in Int /\ Len(wire') + 1 \in Int
    BY <1>0
  <2> QED
    BY <1>0, <2>1, <2>2, AheadGrows
<1>3. ASSUME call'[z] = "awaiting" /\ scan'[z].bound,
             NEW i \in DOMAIN wire', wire'[i].kind = "reply" /\ wire'[i].sync = z,
             NEW m \in Owed(z)
      PROVE  Ahead(enqueued', wire', m, i)
  <2>1. CASE i \in DOMAIN wire
    <3>1. wire'[i] = wire[i] /\ i \in Int
      BY <1>0, <2>1, WireGrows
    <3>2. Ahead(enqueued, wire, m, i)
      BY <1>3, <2>1, <3>1 DEF ScanSafe
    <3> QED
      BY <1>0, <3>1, <3>2, AheadGrows
  <2>2. CASE i > Len(wire) /\ i - Len(wire) \in DOMAIN t
    <3>1. wire'[i] = t[i - Len(wire)]
      BY <1>0, <2>2
    <3> QED
      BY <1>3, <2>2, <3>1 DEF NoReply
  <2> QED
    BY <1>0, <1>3, <2>1, <2>2, WireGrows
<1> QED
  BY <1>a, <1>1, <1>2, <1>3 DEF ScanSafe

\* What the hub takes from the wire: a chunk enters the queue while the sync
\* waits, and the summary finds every chunk before it taken.
LEMMA ScanReceives ==
    ASSUME HookTypeOK, NEW z \in Scans, ScanSafe(z), Receive
    PROVE  ScanSafe(z)'
<1>0. wire \in Seq(Wire) /\ wire # <<>> /\ wire' = Tail(wire)
  BY DEF HookTypeOK, Receive
<1>1. /\ \A i \in DOMAIN wire' : i + 1 \in DOMAIN wire /\ wire'[i] = wire[i + 1]
      /\ \A i \in DOMAIN wire : i # 1 => i - 1 \in DOMAIN wire' /\ wire'[i - 1] = wire[i]
      /\ Len(wire') + 1 = Len(wire) /\ Len(wire) \in Nat
      /\ 1 \in DOMAIN wire /\ Head(wire) = wire[1]
      /\ \A i \in DOMAIN wire' : i \in Nat
      /\ \A i \in DOMAIN wire : i \in Nat
  BY <1>0
<1>2. UNCHANGED <<up, bound, scan>> /\ enqueued \subseteq enqueued'
  BY DEF Receive, session
<1>a. Owed(z)' = Owed(z)
  BY <1>2 DEF Owed
<1>3. NoReply(wire, z) => NoReply(wire', z)
  BY <1>1 DEF NoReply
<1>4. \/ call'[z] = call[z]
      \/ call[z] = "awaiting" /\ call'[z] = "failed"
      \/ call[z] = "awaiting" /\ call'[z] = "done" /\ wire[1].kind = "reply" /\ wire[1].sync = z
  BY <1>1 DEF Receive, HookTypeOK
<1>5. ASSUME call[z] = "awaiting", NEW m, NEW i \in Nat,
             Ahead(enqueued, wire, m, i + 1)
      PROVE  Ahead(enqueued', wire', m, i)
  <2>1. CASE m \in enqueued
    BY <1>2, <2>1 DEF Ahead
  <2>2. CASE m \notin enqueued
    <3>1. PICK j \in DOMAIN wire :
              j < i + 1 /\ wire[j].kind = "chunk" /\ m \in wire[j].msgs
      BY <1>5, <2>2 DEF Ahead
    <3>2. CASE j = 1
      <4>1. m \in enqueued'
        BY <1>1, <1>5, <3>1, <3>2 DEF Receive
      <4> QED
        BY <4>1 DEF Ahead
    <3>3. CASE j # 1
      <4>1. j - 1 \in DOMAIN wire' /\ wire'[j - 1] = wire[j] /\ j - 1 < i
        BY <1>1, <3>1, <3>3
      <4> QED
        BY <3>1, <4>1 DEF Ahead
    <3> QED
      BY <3>2, <3>3
  <2> QED
    BY <2>1, <2>2
<1>6. ASSUME call'[z] = "awaiting" /\ scan[z].bound, scan[z].on,
             NEW m \in Owed(z) \ scan[z].todo
      PROVE  Ahead(enqueued', wire', m, Len(wire') + 1)
  <2>1. Ahead(enqueued, wire, m, Len(wire) + 1) /\ call[z] = "awaiting"
    BY <1>4, <1>6 DEF ScanSafe
  <2> QED
    BY <1>1, <1>5, <2>1
<1>7. ASSUME call'[z] = "awaiting" /\ scan[z].bound,
             NEW i \in DOMAIN wire', wire'[i].kind = "reply" /\ wire'[i].sync = z,
             NEW m \in Owed(z)
      PROVE  Ahead(enqueued', wire', m, i)
  <2>1. call[z] = "awaiting" /\ i \in Nat
    BY <1>1, <1>4, <1>7
  <2>2. Ahead(enqueued, wire, m, i + 1)
    BY <1>1, <1>7, <2>1 DEF ScanSafe
  <2> QED
    BY <1>5, <2>1, <2>2
<1>8. ASSUME call'[z] = "done" /\ scan[z].bound PROVE Owed(z) \subseteq enqueued'
  <2>1. CASE call[z] = "done"
    BY <1>2, <1>8, <2>1 DEF ScanSafe
  <2>2. CASE call[z] = "awaiting" /\ wire[1].kind = "reply" /\ wire[1].sync = z
    <3>1. \A m \in Owed(z) : Ahead(enqueued, wire, m, 1)
      BY <1>1, <1>8, <2>2 DEF ScanSafe
    <3>2. \A m \in Owed(z) : m \in enqueued
      BY <1>1, <3>1 DEF Ahead
    <3> QED
      BY <1>2, <3>2
  <2> QED
    BY <1>4, <1>8, <2>1, <2>2
<1> QED
  BY <1>a, <1>2, <1>3, <1>4, <1>6, <1>7, <1>8 DEF ScanSafe

\* A scan sends a batch: what it no longer has to read is on the wire.
LEMMA ScanSends ==
    ASSUME HookTypeOK, NEW y \in Scans, ScanSafe(y),
           NEW c \in SUBSET scan[y].todo, ScanChunk(y, c)
    PROVE  ScanSafe(y)'
<1> DEFINE e == Sent("chunk", c, y)
           t == Emit("chunk", c, y)
<1>0. wire \in Seq(Wire) /\ c \in SUBSET Messages /\ bound \subseteq fn
  BY DEF HookTypeOK, ScanRecord
<1>1. t \in Seq(Wire) /\ \A i \in DOMAIN t : t[i] = e
  BY <1>0, EmitTyped
<1>2. "chunk" \in bound => t = <<e>>
  BY <1>0 DEF Emit
<1>3. e.kind = "chunk" /\ e.msgs = c /\ e \in Wire
  BY <1>0 DEF Sent, Wire
<1>4. wire' = wire \o t /\ UNCHANGED <<up, bound, enqueued, call>>
  BY DEF ScanChunk, session
<1>5. /\ scan[y].on /\ scan'[y].on /\ scan'[y].todo = scan[y].todo \ c
      /\ scan'[y].all = scan[y].all /\ scan'[y].bound = scan[y].bound
      /\ scan'[y].skipped = scan[y].skipped
  BY DEF ScanChunk, HookTypeOK, ScanRecord
<1> HIDE DEF e, t
<1>6. NoReply(t, y)
  BY <1>1, <1>3 DEF NoReply
<1>7. NoReply(wire', y)
  BY <1>0, <1>1, <1>4, <1>5, <1>6, NoReplyGrows DEF ScanSafe
<1>8. ASSUME call[y] = "awaiting", scan[y].bound,
             NEW m \in Owed(y) \ (scan[y].todo \ c)
      PROVE  Ahead(enqueued, wire', m, Len(wire') + 1)
  <2>1. CASE m \notin scan[y].todo
    <3>1. Ahead(enqueued, wire, m, Len(wire) + 1)
      BY <1>5, <1>8, <2>1 DEF ScanSafe
    <3>2. /\ Len(wire) + 1 \in Int /\ Len(wire') + 1 \in Int
          /\ Len(wire) + 1 <= Len(wire') + 1
      BY <1>0, <1>1, <1>4, WireGrows
    <3> QED
      BY <1>0, <1>1, <1>4, <3>1, <3>2, AheadGrows
  <2>2. CASE m \in c
    <3>1. wire' = wire \o <<e>>
      BY <1>2, <1>4, <1>8 DEF ScanSafe
    <3>2. Len(wire) + 1 \in DOMAIN wire' /\ wire'[Len(wire) + 1] = e
          /\ Len(wire) + 1 < Len(wire') + 1
      BY <1>0, <1>3, <3>1
    <3> QED
      BY <1>3, <2>2, <3>2 DEF Ahead
  <2> QED
    BY <1>8, <2>1, <2>2
<1>9. call[y] = "awaiting" /\ scan[y].bound => "chunk" \in bound
  BY DEF ScanSafe
<1>10. ASSUME NEW i \in DOMAIN wire', wire'[i].kind = "reply" /\ wire'[i].sync = y
       PROVE  FALSE
  BY <1>7, <1>10 DEF NoReply
<1>11. call[y] # "idle" /\ (call[y] = "awaiting" => up)
       /\ (call[y] = "done" /\ scan[y].bound => Owed(y) \subseteq enqueued)
  BY <1>5 DEF ScanSafe
<1>12. Owed(y)' = Owed(y)
  BY <1>5 DEF Owed
<1> QED
  BY <1>4, <1>5, <1>7, <1>8, <1>9, <1>10, <1>11, <1>12 DEF ScanSafe

\* A scan skips what it cannot read: it no longer owes that.
LEMMA ScanSkipsSafe ==
    ASSUME HookTypeOK, NEW y \in Scans, ScanSafe(y),
           NEW c \in SUBSET scan[y].todo, ScanSkips(y, c)
    PROVE  ScanSafe(y)'
<1>1. UNCHANGED <<wire, up, bound, enqueued, call>>
  BY DEF ScanSkips, session
<1>2. /\ scan[y].on /\ scan'[y].on /\ scan'[y].bound = scan[y].bound
      /\ scan'[y].todo = scan[y].todo \ c /\ scan'[y].all = scan[y].all
      /\ scan'[y].skipped = scan[y].skipped \cup c
  BY DEF ScanSkips, HookTypeOK, ScanRecord
<1>3. Owed(y)' \subseteq Owed(y) /\ Owed(y)' \ scan'[y].todo \subseteq Owed(y) \ scan[y].todo
  BY <1>2 DEF Owed
<1> QED
  BY <1>1, <1>2, <1>3 DEF ScanSafe

\* A scan ends with nothing left to read: the summary is behind all of it.
LEMMA ScanFinishes ==
    ASSUME HookTypeOK, NEW y \in Scans, ScanSafe(y), ScanEnd(y)
    PROVE  ScanSafe(y)'
<1> DEFINE u == IF up THEN <<Sent("reply", {}, y)>> ELSE <<>>
<1>1. u \in Seq(Wire) /\ wire \in Seq(Wire)
  BY EndTyped DEF HookTypeOK
<1>2. wire' = wire \o u /\ UNCHANGED <<up, bound, enqueued, call>>
  BY DEF ScanEnd, session
<1>3. /\ scan[y].on /\ scan[y].todo = {} /\ ~scan'[y].on
      /\ scan'[y].bound = scan[y].bound
      /\ scan'[y].all = scan[y].all /\ scan'[y].skipped = scan[y].skipped
  BY DEF ScanEnd, HookTypeOK, ScanRecord
<1> HIDE DEF u
<1>4. Owed(y)' = Owed(y)
  BY <1>3 DEF Owed
<1>5. Len(wire) \in Nat /\ DOMAIN wire' = 1..(Len(wire) + Len(u)) /\ Len(u) \in Nat
  BY <1>1, <1>2
<1>6. ASSUME call[y] = "awaiting", scan[y].bound,
             NEW i \in DOMAIN wire', wire'[i].kind = "reply" /\ wire'[i].sync = y,
             NEW m \in Owed(y)
      PROVE  Ahead(enqueued, wire', m, i)
  <2>1. CASE i \in DOMAIN wire
    <3>1. wire'[i] = wire[i]
      BY <1>1, <1>2, <2>1, WireGrows
    <3> QED
      BY <1>3, <1>6, <2>1, <3>1 DEF ScanSafe, NoReply
  <2>2. CASE i > Len(wire)
    <3>1. i \in Int /\ Len(wire) + 1 \in Int /\ Len(wire) + 1 <= i
      BY <1>5, <1>6, <2>2
    <3>2. Ahead(enqueued, wire, m, Len(wire) + 1)
      BY <1>3, <1>6 DEF ScanSafe
    <3> QED
      BY <1>1, <1>2, <3>1, <3>2, AheadGrows
  <2> QED
    BY <1>1, <1>5, <2>1, <2>2
<1>7. /\ call[y] # "idle" /\ (call[y] = "awaiting" => up)
      /\ call[y] = "awaiting" /\ scan[y].bound => "chunk" \in bound
      /\ call[y] = "done" /\ scan[y].bound => Owed(y) \subseteq enqueued
  BY <1>3 DEF ScanSafe
<1> QED
  BY <1>2, <1>3, <1>4, <1>6, <1>7 DEF ScanSafe

\* Every scan stays safe: its own steps, and those it does not take part in.
LEMMA ScanSafeStep ==
    ASSUME HookTypeOK, HookNext, NEW z \in Scans, ScanSafe(z)
    PROVE  ScanSafe(z)'
<1>0. wire \in Seq(Wire) /\ <<>> \in Seq(Wire) /\ wire = wire \o <<>>
      /\ NoReply(<<>>, z)
  BY DEF HookTypeOK, NoReply
<1>1. CASE SessionCloses
  <2>1. wire' = <<>> /\ UNCHANGED <<enqueued, scan>>
    BY <1>1 DEF SessionCloses
  <2>2. /\ call'[z] # "awaiting"
        /\ call'[z] = "idle" => call[z] = "idle"
        /\ call'[z] = "done" => call[z] = "done"
    BY <1>1 DEF SessionCloses, HookTypeOK
  <2> QED
    BY <2>1, <2>2 DEF ScanSafe, NoReply, Owed
<1>2. CASE Receive
  BY <1>2, ScanReceives
<1>3. CASE Navigate
  <2>1. PICK t \in Seq(Wire) : /\ wire' = wire \o t
                               /\ \A i \in DOMAIN t : t[i].kind = "error"
    BY <1>3, ErrorsTyped DEF Navigate
  <2>2. NoReply(t, z)
    BY <2>1 DEF NoReply
  <2>3. /\ scan'[z].all = scan[z].all /\ scan'[z].bound = scan[z].bound
        /\ scan'[z].todo = scan[z].todo /\ ~scan'[z].on
        /\ scan'[z].skipped = scan[z].skipped
    BY <1>3 DEF Navigate, HookTypeOK, ScanRecord
  <2>4. UNCHANGED <<call, up, bound, enqueued>>
    BY <1>3 DEF Navigate, session
  <2> QED
    BY <2>1, <2>2, <2>3, <2>4, ScanUntouched
<1>4. CASE /\ UNCHANGED <<wire, enqueued, scan>> /\ call'[z] = call[z]
           /\ (up => up') /\ bound \subseteq bound'
  <2>1. /\ wire' = wire \o <<>> /\ enqueued \subseteq enqueued'
        /\ scan'[z].all = scan[z].all /\ scan'[z].bound = scan[z].bound
        /\ scan'[z].todo = scan[z].todo /\ scan'[z].on = scan[z].on
        /\ scan'[z].skipped = scan[z].skipped
    BY <1>0, <1>4
  <2> QED
    BY <1>0, <1>4, <2>1, ScanUntouched
<1>5. CASE \/ SessionOpens \/ BindEvent \/ BindChunk \/ AddScript \/ EvaluateHook
           \/ SetupFails \/ Retry \/ \E m \in Messages : Write(m)
  <2>1. UNCHANGED <<wire, enqueued, scan, call>> /\ (up => up') /\ bound \subseteq bound'
    BY <1>5 DEF SessionOpens, BindEvent, BindChunk, AddBinding, AddScript,
                EvaluateHook, SetupFails, Retry, Write, session
  <2> QED
    BY <1>4, <2>1
<1>6. CASE FlushBuffer
  <2> DEFINE t == Emit("event", eventBuffer, "none")
  <2>1. t \in Seq(Wire) /\ \A i \in DOMAIN t : t[i] = Sent("event", eventBuffer, "none")
    BY EmitTyped DEF HookTypeOK
  <2>2. wire' = wire \o t /\ UNCHANGED <<call, up, bound, enqueued, scan>>
    BY <1>6 DEF FlushBuffer, session
  <2> HIDE DEF t
  <2>3. NoReply(t, z)
    BY <2>1 DEF NoReply, Sent
  <2> QED
    BY <2>1, <2>2, <2>3, ScanUntouched
<1>7. ASSUME NEW y \in Scans, StartScan(y) PROVE ScanSafe(z)'
  <2>1. UNCHANGED <<wire, enqueued, up, bound, store>>
    BY <1>7 DEF StartScan, session, page
  <2>2. CASE y # z
    <3>1. call'[z] = call[z] /\ scan'[z] = scan[z]
      BY <1>7, <2>2 DEF StartScan, HookTypeOK
    <3> QED
      BY <1>0, <2>1, <3>1, ScanUntouched
  <2>3. CASE y = z /\ up
    <3>1. call'[z] = "awaiting" /\ call[z] = "idle"
      BY <1>7, <2>3 DEF StartScan, HookTypeOK
    <3>2. /\ scan'[z].on /\ scan'[z].todo = store /\ scan'[z].all = store
          /\ scan'[z].bound = ("chunk" \in bound)
      <4> DEFINE b == "chunk" \in bound
      <4>1. scan' = [scan EXCEPT ![z] = [on |-> TRUE, todo |-> store, all |-> store,
                                         skipped |-> {}, bound |-> b]]
        BY <1>7, <2>3 DEF StartScan
      <4> HIDE DEF b
      <4>2. /\ scan'[z].on /\ scan'[z].todo = store /\ scan'[z].all = store
            /\ scan'[z].bound = b
        BY <4>1 DEF HookTypeOK
      <4> QED
        BY <4>2 DEF b
    <3>3. NoReply(wire', z)
      BY <2>1, <3>1 DEF ScanSafe
    <3>4. \A i \in DOMAIN wire' : ~ (wire'[i].kind = "reply" /\ wire'[i].sync = z)
      BY <3>3 DEF NoReply
    <3> QED
      BY <2>1, <2>3, <3>1, <3>2, <3>3, <3>4 DEF ScanSafe, Owed
  <2>4. CASE y = z /\ ~up
    <3>1. call'[z] = "failed" /\ call[z] = "idle" /\ scan' = scan
      BY <1>7, <2>4 DEF StartScan, HookTypeOK
    <3> QED
      BY <2>1, <3>1 DEF ScanSafe, Owed
  <2> QED
    BY <2>2, <2>3, <2>4
<1>8. ASSUME NEW y \in Scans, ScanEnd(y) PROVE ScanSafe(z)'
  <2>1. CASE y = z
    BY <1>8, <2>1, ScanFinishes
  <2>2. CASE y # z
    <3> DEFINE u == IF up THEN <<Sent("reply", {}, y)>> ELSE <<>>
    <3>1. u \in Seq(Wire) /\ \A i \in DOMAIN u : u[i] = Sent("reply", {}, y)
      BY EndTyped
    <3>2. wire' = wire \o u /\ UNCHANGED <<call, up, bound, enqueued>>
      BY <1>8 DEF ScanEnd, session
    <3>3. scan'[z] = scan[z]
      BY <1>8, <2>2 DEF ScanEnd, HookTypeOK
    <3> HIDE DEF u
    <3>4. NoReply(u, z)
      BY <2>2, <3>1 DEF NoReply, Sent
    <3> QED
      BY <3>1, <3>2, <3>3, <3>4, ScanUntouched
  <2> QED
    BY <2>1, <2>2
<1>9. ASSUME NEW y \in Scans, NEW c \in SUBSET scan[y].todo, ScanChunk(y, c)
      PROVE  ScanSafe(z)'
  <2>1. CASE y = z
    BY <1>9, <2>1, ScanSends
  <2>2. CASE y # z
    <3> DEFINE t == Emit("chunk", c, y)
    <3>0. c \in SUBSET Messages
      BY DEF HookTypeOK, ScanRecord
    <3>1. t \in Seq(Wire) /\ \A i \in DOMAIN t : t[i] = Sent("chunk", c, y)
      BY <3>0, EmitTyped
    <3>2. wire' = wire \o t /\ UNCHANGED <<call, up, bound, enqueued>>
      BY <1>9 DEF ScanChunk, session
    <3>3. scan'[z] = scan[z]
      BY <1>9, <2>2 DEF ScanChunk, HookTypeOK
    <3> HIDE DEF t
    <3>4. NoReply(t, z)
      BY <3>1 DEF NoReply, Sent
    <3> QED
      BY <3>1, <3>2, <3>3, <3>4, ScanUntouched
  <2> QED
    BY <2>1, <2>2
<1>10. ASSUME NEW y \in Scans, SyncTimeout(y) PROVE ScanSafe(z)'
  <2>1. UNCHANGED <<wire, enqueued, scan, up, bound>>
    BY <1>10 DEF SyncTimeout, session
  <2>2. CASE y = z
    <3>1. call'[z] = "failed"
      BY <1>10, <2>2 DEF SyncTimeout, HookTypeOK
    <3> QED
      BY <2>1, <3>1 DEF ScanSafe, Owed
  <2>3. CASE y # z
    <3>1. call'[z] = call[z]
      BY <1>10, <2>3 DEF SyncTimeout, HookTypeOK
    <3> QED
      BY <1>4, <2>1, <3>1
  <2> QED
    BY <2>2, <2>3
<1>11. ASSUME NEW y \in Scans, NEW c \in SUBSET scan[y].todo, ScanSkips(y, c)
       PROVE  ScanSafe(z)'
  <2>1. CASE y = z
    BY <1>11, <2>1, ScanSkipsSafe
  <2>2. CASE y # z
    <3>1. UNCHANGED <<wire, enqueued, up, bound, call>>
      BY <1>11 DEF ScanSkips, session
    <3>2. scan'[z] = scan[z]
      BY <1>11, <2>2 DEF ScanSkips, HookTypeOK
    <3> QED
      BY <1>0, <3>1, <3>2, ScanUntouched
  <2> QED
    BY <2>1, <2>2
<1> QED
  BY <1>1, <1>2, <1>3, <1>5, <1>6, <1>7, <1>8, <1>9, <1>10, <1>11 DEF HookNext

\* HookInv holds in every state of the composed parts.
LEMMA HookInvariant ==
    PartsSpec => []HookInv
<1>1. PartsInit => HookInv
  <2> SUFFICES ASSUME HookInit PROVE HookInv
    BY DEF PartsInit
  <2>1. HookTypeOK
    <3>1. NoScan \in ScanRecord
      BY DEF NoScan, ScanRecord
    <3>2. wire \in Seq(Wire)
      BY DEF HookInit
    <3> QED
      BY <3>1, <3>2 DEF HookInit, HookTypeOK
  <2>3. ListenerHeard /\ HeardIsSafe
    BY DEF HookInit, ListenerHeard, HeardIsSafe
  <2>2. \A y \in Scans : ScanSafe(y)
    BY DEF HookInit, ScanSafe, NoScan, NoReply
  <2> QED
    BY <2>1, <2>2, <2>3 DEF HookInv
<1>2. HookInv /\ [PartsNext]_partsVars => HookInv'
  <2> SUFFICES ASSUME HookInv, [PartsNext]_partsVars PROVE HookInv'
    OBVIOUS
  <2>1. HookNext \/ UNCHANGED hookVars
    BY DEF PartsNext, partsVars
  <2>2. CASE UNCHANGED hookVars
    <3>1. UNCHANGED <<up, listeners, bound, fn, flushTimer, wire, store, eventBuffer,
                      call, scan, stage, script, hooked, heard, enqueued, gone>>
      BY <2>2 DEF hookVars, session, setup, page, past
    <3> QED
      BY <3>1 DEF HookInv, HookTypeOK, ListenerHeard, HeardIsSafe, ScanSafe, Owed
  <2>3. CASE HookNext
    <3>1. HookTypeOK' /\ ListenerHeard' /\ HeardIsSafe'
      BY <2>3, HookTypes, ListenerHeardStep, HeardIsSafeStep DEF HookInv
    <3>2. (\A y \in Scans : ScanSafe(y))'
      BY <2>3, ScanSafeStep DEF HookInv
    <3> QED
      BY <3>1, <3>2 DEF HookInv
  <2> QED
    BY <2>1, <2>2, <2>3
<1> QED
  BY <1>1, <1>2, PTL DEF PartsSpec

\* Whatever number of messages, sessions, reloads and calls of initialize()
\* there are, and whatever an earlier life of the hub left in the page: a message
\* that the hook sees once the session has its binding and the hub its listener
\* is in the queue, in the buffer with the 100 ms timer set, on the wire, or
\* went with its document or its session (enqueueEvent, flushBuffer and
\* handleBindingEvent of in_context_hook.ts).
THEOREM CaptureConservesHolds ==
    PartsSpec => []CaptureConserves
<1>1. HookInv => CaptureConserves
  BY DEF HookInv, HeardIsSafe, CaptureConserves, Accounted
<1> QED
  BY <1>1, HookInvariant, PTL

\* Whatever number of syncs overlap, of whatever size: one that succeeds and
\* was started with its binding in place has handed every message of the store
\* that no swallowed error of IndexedDB made it skip to the queue by the time
\* executeChunkedSync() of chunked_sync.ts returns.
THEOREM SyncedMeansAllHolds ==
    PartsSpec => []SyncedMeansAll
<1>1. HookInv => SyncedMeansAll
  BY DEF HookInv, ScanSafe, Owed, SyncedMeansAll
<1> QED
  BY <1>1, HookInvariant, PTL
=============================================================================
