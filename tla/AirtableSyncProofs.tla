------------------------- MODULE AirtableSyncProofs -------------------------
(***************************************************************************)
(* Proofs about AirtableSync, for any number of changes, attempts,         *)
(* workers, rows and restarts.                                             *)
(***************************************************************************)
EXTENDS AirtableSync, FiniteSetTheorems, TLAPS

\* An attempt belongs to a sync that is running, no other attempt does, and
\* what it works on exists.
AttemptsInv ==
    /\ \A a, b \in running : a.sync = b.sync => a = b
    /\ \A a \in running :
        /\ sync[a.sync] = "running"
        /\ a.step \in {"link", "update", "contractor", "error"} => a.row \in created
        /\ a.step = "photos" => a.row \in created \cup {NoRow}
    /\ \A v \in Version : sync[v] \in {"none", "owed", "waiting", "running"} =>
                              attemptsMade[v] < MaxAttempts

\* Nothing is newer than the job.
VersionInv ==
    /\ \A v \in Version : sync[v] # "none" => v <= version
    /\ \A a \in running : a.sync <= a.seen /\ a.seen <= version /\ a.photos <= version
    /\ \A r \in Row : /\ shown[r].status <= version
                      /\ shown[r].details <= version
                      /\ shown[r].photos <= version
                      /\ shown[r].contractor <= version

IType == TypeOK /\ AttemptsInv /\ VersionInv

\* The only attempt there is has read the newest version that is shown, of the
\* photos too if it could read them, and is the only one to move the link.
Alone(a) ==
    /\ \A b \in running : b = a
    /\ \A r \in Row : /\ shown[r].status <= a.seen
                      /\ shown[r].details <= a.seen
                      /\ shown[r].contractor <= a.seen
    /\ a.step \in {"create", "link", "update", "contractor"} /\ a.photos # 0 =>
           a.seen <= a.photos /\ \A r \in Row : shown[r].photos <= a.photos
    /\ a.step = "photos" => a.row = linked
    /\ a.step \in {"create", "link"} => linked = NoRow
    /\ a.step = "link" => /\ shown[a.row].status = a.seen
                          /\ shown[a.row].details = a.seen
                          /\ a.photos # 0 => shown[a.row].photos = a.photos
                          /\ ~ shown[a.row].error
    /\ a.step \in {"update", "contractor", "error"} => linked # NoRow /\ a.row = linked
    /\ a.step = "contractor" => /\ shown[linked].status = a.seen
                                /\ shown[linked].details = a.seen
                                /\ a.photos # 0 => shown[linked].photos = a.photos
                                /\ ~ shown[linked].error

CalmInv == ~ overlapped => /\ \A a \in running : Alone(a)
                           /\ MirrorHeals
                           /\ ErrorExplained

\* As long as every link was stored, the rows are the linked one, or the one
\* whose link the attempt is about to store.
RowsInv ==
    ~ overlapped /\ ~ unlinked =>
        \/ created \subseteq {linked}
        \/ \E a \in running : a.step = "link" /\ created = {a.row}

IInv == IType /\ CalmInv /\ RowsInv

-----------------------------------------------------------------------------
(* Shapes *)

\* b is a at a later step, with what a has read, or without its photos
Later(a, b, step) ==
    /\ b \in Attempt
    /\ b.sync = a.sync /\ b.seen = a.seen /\ b.row = a.row /\ b.step = step
    /\ b.photos = a.photos \/ (b.photos = 0 /\ step # "contractor")

LEMMA Steps == {"photos", "create", "link", "update", "contractor", "failing", "error", "end"} = Step
  BY DEF Step

LEMMA Numbers == /\ MaxVersion \in Nat /\ Attempts \in Nat /\ Attempts >= 1
                 /\ \A v \in Version : v \in Nat
                 /\ MaxAttempts \in Nat /\ MaxAttempts <= Attempts
  BY SyncAssumption DEF Version, MaxAttempts

\* A step of an attempt replaces it by b, or ends it.
Replaces(a, b) == running' = (running \ {a}) \cup {b}

\* An attempt whose call works, or throws
LEMMA Proceeds ==
  ASSUME NEW a \in Attempt, NEW works \in BOOLEAN, GoesOn(a, works, "contractor")
  PROVE  \E b : Replaces(a, b) /\ Later(a, b, IF works THEN "contractor" ELSE "failing")
  <1> DEFINE c == [a EXCEPT !.step = "contractor"]
             t == [a EXCEPT !.step = "failing", !.photos = 0]
  <1>1. Later(a, c, "contractor") /\ Later(a, t, "failing")
    <2>1. 0 \in 0 .. MaxVersion
      BY Numbers
    <2> QED BY <2>1 DEF Later, Attempt, Step
  <1>2. Replaces(a, IF works THEN c ELSE t)
    BY DEF GoesOn, Throws, Replaces
  <1> HIDE DEF c, t
  <1> QED BY <1>1, <1>2

\* An attempt that throws, or is over
LEMMA Stops ==
  ASSUME NEW a \in Attempt
  PROVE  /\ Later(a, Throws(a), "failing")
         /\ Later(a, [Throws(a) EXCEPT !.step = "end"], "end")
  <1>1. 0 \in 0 .. MaxVersion
    BY Numbers
  <1> QED BY <1>1 DEF Later, Throws, Attempt, Step

\* What keeps IType when attempt a goes on as b
LEMMA ITypeGoesOn ==
  ASSUME IType, NEW a \in running, NEW b \in Attempt, Replaces(a, b),
         b.sync = a.sync, b.seen >= a.seen, b.seen <= version, b.photos <= version,
         b.step # "photos",
         b.step \in {"link", "update", "contractor", "error"} => b.row \in created',
         UNCHANGED <<redisQueueActive, version, sync, attemptsMade, crashes, unseen>>,
         linked' \in created' \cup {NoRow}, created \subseteq created', created' \subseteq Row,
         unlinked' \in BOOLEAN, overlapped' = overlapped,
         shown' \in [Row -> Shown],
         \A r \in Row : /\ shown'[r].status <= version
                        /\ shown'[r].details <= version
                        /\ shown'[r].photos <= version
                        /\ shown'[r].contractor <= version
  PROVE  IType'
  <1>1. TypeOK'
    BY DEF IType, TypeOK, Replaces
  <1>2. AttemptsInv'
    BY DEF IType, TypeOK, AttemptsInv, Replaces, MaxAttempts
  <1>3. VersionInv'
    <2>1. \A c \in running' : c.sync <= c.seen /\ c.seen <= version /\ c.photos <= version
      <3>1. a.sync \in Nat /\ a.seen \in Nat /\ b.seen \in Nat
        BY Numbers DEF IType, TypeOK, Attempt
      <3>2. b.sync <= b.seen
        BY <3>1 DEF IType, VersionInv
      <3> QED BY <3>2 DEF IType, VersionInv, Replaces
    <2> QED BY <2>1 DEF IType, VersionInv
  <1> QED BY <1>1, <1>2, <1>3 DEF IType

\* A version written into a row
LEMMA ShownUpdates ==
  ASSUME IType, NEW a \in running, a.row \in Row
  PROVE  /\ a.seen \in Nat /\ a.seen <= version /\ a.photos \in Nat /\ a.photos <= version
         /\ \A r \in Row : /\ shown[r].status \in Nat
                           /\ shown[r].details \in Nat
                           /\ shown[r].photos \in Nat
                           /\ shown[r].contractor \in Nat
         /\ [shown EXCEPT ![a.row].status = a.seen, ![a.row].details = a.seen,
                          ![a.row].photos = IF a.photos = 0 THEN @ ELSE a.photos,
                          ![a.row].error = FALSE] \in [Row -> Shown]
         /\ [shown EXCEPT ![a.row].contractor = a.seen] \in [Row -> Shown]
         /\ [shown EXCEPT ![a.row].status = a.seen, ![a.row].error = TRUE] \in [Row -> Shown]
  <1>1. /\ a.seen \in 0 .. MaxVersion /\ a.seen \in Nat /\ a.seen <= version
        /\ a.photos \in 0 .. MaxVersion /\ a.photos \in Nat /\ a.photos <= version
    BY Numbers DEF IType, TypeOK, Attempt, VersionInv, Version
  <1>2. shown \in [Row -> Shown]
    BY DEF IType, TypeOK
  <1>3. \A r \in Row : /\ shown[r].status \in Nat
                       /\ shown[r].details \in Nat
                       /\ shown[r].photos \in Nat
                       /\ shown[r].contractor \in Nat
    BY <1>2, Numbers DEF Shown
  <1>4. [shown EXCEPT ![a.row].status = a.seen, ![a.row].details = a.seen,
                      ![a.row].photos = IF a.photos = 0 THEN @ ELSE a.photos,
                      ![a.row].error = FALSE] \in [Row -> Shown]
    <2> DEFINE p == IF a.photos = 0 THEN shown[a.row].photos ELSE a.photos
    <2>1. p \in 0 .. MaxVersion
      BY <1>1, <1>2 DEF Shown
    <2> HIDE DEF p
    <2> DEFINE n == [shown[a.row] EXCEPT !.status = a.seen, !.details = a.seen, !.photos = p,
                                         !.error = FALSE]
    <2>2. n \in Shown
      BY <1>1, <1>2, <2>1 DEF Shown
    <2>3. [shown EXCEPT ![a.row] = n] \in [Row -> Shown]
      BY <1>2, <2>2
    <2>4. [shown EXCEPT ![a.row].status = a.seen, ![a.row].details = a.seen,
                        ![a.row].photos = p, ![a.row].error = FALSE]
            = [shown EXCEPT ![a.row] = n]
      BY <1>2
    <2> QED BY <2>3, <2>4 DEF p
  <1>5. /\ [shown EXCEPT ![a.row].contractor = a.seen] \in [Row -> Shown]
        /\ [shown EXCEPT ![a.row].status = a.seen, ![a.row].error = TRUE] \in [Row -> Shown]
    BY <1>1, <1>2 DEF Shown
  <1> QED BY <1>1, <1>3, <1>4, <1>5

-----------------------------------------------------------------------------
(* The steps of an attempt *)

LEMMA CreateRowType ==
  ASSUME IType, NEW a \in running, NEW r \in Row, NEW answered \in BOOLEAN, CreateRow(a, r, answered)
  PROVE  IType'
  <1>1. /\ a \in Attempt /\ a.seen \in Nat /\ a.seen <= version /\ a.seen \in 0 .. MaxVersion
        /\ a.photos \in 0 .. MaxVersion /\ a.photos <= version
    BY Numbers DEF IType, TypeOK, VersionInv, Attempt, Version
  <1>2. PICK b \in Attempt : /\ Replaces(a, b) /\ b.sync = a.sync /\ b.seen = a.seen
                             /\ b.photos \in {0, a.photos}
                             /\ b.step = (IF answered THEN "link" ELSE "failing")
                             /\ answered => b.row = r
    <2> DEFINE l == [a EXCEPT !.step = "link", !.row = r]
               f == Throws(a)
    <2>1. /\ l \in Attempt /\ l.sync = a.sync /\ l.step = "link" /\ l.seen = a.seen /\ l.row = r
          /\ l.photos = a.photos
      BY <1>1 DEF Attempt, Step
    <2>2. /\ f \in Attempt /\ f.sync = a.sync /\ f.step = "failing" /\ f.seen = a.seen
          /\ f.photos \in {0, a.photos}
      BY <1>1, Stops DEF Later
    <2>3. Replaces(a, IF answered THEN l ELSE f)
      BY DEF CreateRow, Replaces
    <2> HIDE DEF l, f
    <2> QED BY <2>1, <2>2, <2>3
  <1>3. /\ b.step \in {"link", "update", "contractor", "error"} => b.row \in created'
        /\ created \subseteq created' /\ created' \subseteq Row
        /\ linked' \in created' \cup {NoRow}
    BY <1>2 DEF CreateRow, IType, TypeOK
  <1>4. /\ shown' \in [Row -> Shown]
        /\ \A q \in Row : /\ shown'[q].status <= version
                          /\ shown'[q].details <= version
                          /\ shown'[q].photos <= version
                          /\ shown'[q].contractor <= version
    <2>1. version \in Nat /\ 0 <= version /\ 0 \in 0 .. MaxVersion
      BY Numbers DEF IType, TypeOK
    <2> DEFINE n == [status |-> a.seen, details |-> a.seen, photos |-> a.photos,
                     contractor |-> 0, error |-> FALSE]
    <2>2. /\ n \in Shown /\ n.status = a.seen /\ n.details = a.seen /\ n.photos = a.photos
          /\ n.contractor = 0
      BY <1>1, <2>1 DEF Shown
    <2>3. shown' = [shown EXCEPT ![r] = n]
      BY DEF CreateRow
    <2> HIDE DEF n
    <2>4. shown' \in [Row -> Shown]
      BY <2>2, <2>3 DEF IType, TypeOK
    <2>5. ASSUME NEW q \in Row
          PROVE  /\ shown'[q].status <= version
                 /\ shown'[q].details <= version
                 /\ shown'[q].photos <= version
                 /\ shown'[q].contractor <= version
      <3>1. shown'[q] = IF q = r THEN n ELSE shown[q]
        BY <2>3 DEF IType, TypeOK
      <3> QED BY <1>1, <2>1, <2>2, <3>1 DEF IType, VersionInv
    <2> QED BY <2>4, <2>5
  <1>5. (unlinked \/ ~ answered) \in BOOLEAN
    OBVIOUS
  <1>6. /\ UNCHANGED <<redisQueueActive, version, sync, attemptsMade, crashes, unseen>>
        /\ overlapped' = overlapped /\ unlinked' \in BOOLEAN
    BY <1>5 DEF CreateRow
  <1>7. b.seen >= a.seen /\ b.seen <= version /\ b.photos <= version /\ b.step # "photos"
    BY <1>1, <1>2, <1>4, Numbers DEF IType, TypeOK
  <1> QED BY <1>2, <1>3, <1>4, <1>6, <1>7, ITypeGoesOn

\* The attempt that has read the photos, and what it goes on with
LEMMA PhotosRead ==
  ASSUME NEW a \in Attempt, NEW works \in BOOLEAN, ReadCompletionPhotos(a, works),
         version \in Version
  PROVE  \E b \in Attempt : /\ Replaces(a, b) /\ b.sync = a.sync /\ b.seen = a.seen
                            /\ b.row = a.row
                            /\ b.step = (IF a.row = NoRow THEN "create" ELSE "update")
                            /\ b.photos = (IF works THEN version ELSE 0)
  <1> DEFINE step == IF a.row = NoRow THEN "create" ELSE "update"
             photos == IF works THEN version ELSE 0
             b == [a EXCEPT !.step = step, !.photos = photos]
  <1>1. step \in Step /\ photos \in 0 .. MaxVersion
    BY Numbers DEF Step, Version
  <1>2. Replaces(a, b)
    BY DEF ReadCompletionPhotos, Replaces
  <1> HIDE DEF step, photos
  <1>3. /\ b \in Attempt /\ b.sync = a.sync /\ b.seen = a.seen /\ b.row = a.row
        /\ b.step = step /\ b.photos = photos
    BY <1>1 DEF Attempt
  <1> HIDE DEF b
  <1> QED BY <1>2, <1>3 DEF step, photos

LEMMA ReadPhotosType ==
  ASSUME IType, NEW a \in running, NEW works \in BOOLEAN, ReadCompletionPhotos(a, works)
  PROVE  IType'
  <1>1. /\ a \in Attempt /\ a.seen \in Nat /\ a.seen <= version /\ version \in Version
        /\ version \in Nat /\ linked \in created \cup {NoRow} /\ created \subseteq Row
        /\ shown \in [Row -> Shown] /\ unlinked \in BOOLEAN
        /\ a.row \in created \cup {NoRow}
    BY Numbers DEF IType, TypeOK, AttemptsInv, VersionInv, Attempt, ReadCompletionPhotos
  <1>2. PICK b \in Attempt : /\ Replaces(a, b) /\ b.sync = a.sync /\ b.seen = a.seen
                             /\ b.row = a.row
                             /\ b.step = (IF a.row = NoRow THEN "create" ELSE "update")
                             /\ b.photos = (IF works THEN version ELSE 0)
    BY <1>1, PhotosRead
  <1>3. /\ UNCHANGED <<redisQueueActive, version, sync, attemptsMade, crashes, unseen>>
        /\ UNCHANGED <<linked, created, shown, overlapped, unlinked>>
    BY DEF ReadCompletionPhotos, airtableVars
  <1>4. /\ b.seen >= a.seen /\ b.seen <= version /\ b.photos <= version /\ b.step # "photos"
        /\ b.step \in {"link", "update", "contractor", "error"} => b.row \in created
    BY <1>1, <1>2
  <1>5. \A r \in Row : /\ shown[r].status <= version
                       /\ shown[r].details <= version
                       /\ shown[r].photos <= version
                       /\ shown[r].contractor <= version
    BY DEF IType, VersionInv
  <1> QED BY <1>1, <1>2, <1>3, <1>4, <1>5, ITypeGoesOn

LEMMA StoreLinkType ==
  ASSUME IType, NEW a \in running, NEW works \in BOOLEAN, StoreLink(a, works)
  PROVE  IType'
  <1>0. /\ a \in Attempt /\ a.seen \in Nat /\ a.seen <= version /\ a.photos <= version
        /\ 0 <= version
    BY Numbers DEF IType, TypeOK, VersionInv, Attempt
  <1>1. PICK b : /\ Replaces(a, b)
                 /\ Later(a, b, IF works THEN "contractor" ELSE "failing")
    BY <1>0, Proceeds DEF StoreLink
  <1>2. a.row \in created
    BY DEF StoreLink, IType, AttemptsInv
  <1>3. linked' \in created' \cup {NoRow}
    BY <1>2 DEF StoreLink, airtableVars, IType, TypeOK
  <1>4. (unlinked \/ ~ works) \in BOOLEAN
    OBVIOUS
  <1>5. /\ UNCHANGED <<redisQueueActive, version, sync, attemptsMade, crashes, unseen>>
        /\ overlapped' = overlapped /\ created' = created /\ shown' = shown
        /\ unlinked' \in BOOLEAN
    BY <1>4 DEF StoreLink, airtableVars
  <1>6. /\ shown \in [Row -> Shown] /\ created \subseteq Row
        /\ \A r \in Row : /\ shown[r].status <= version
                          /\ shown[r].details <= version
                          /\ shown[r].photos <= version
                          /\ shown[r].contractor <= version
    BY DEF IType, TypeOK, VersionInv
  <1>7. /\ b \in Attempt /\ b.sync = a.sync /\ b.seen >= a.seen /\ b.seen <= version
        /\ b.photos <= version /\ b.step # "photos" /\ b.row = a.row
    BY <1>0, <1>1 DEF Later
  <1> QED BY <1>1, <1>2, <1>3, <1>5, <1>6, <1>7, ITypeGoesOn

LEMMA UpdateType ==
  ASSUME IType, NEW a \in running, NEW applied \in BOOLEAN, NEW answered \in BOOLEAN,
         \/ UpdateAirtableStatus(a, applied, answered)
         \/ UpdateAirtableAssignedContractor(a, applied, answered)
         \/ ErrorWrite(a, applied)
  PROVE  /\ shown' \in [Row -> Shown]
         /\ \A r \in Row : /\ shown'[r].status <= version
                           /\ shown'[r].details <= version
                           /\ shown'[r].photos <= version
                           /\ shown'[r].contractor <= version
  <1>1. a.row \in Row
    BY DEF UpdateAirtableStatus, UpdateAirtableAssignedContractor, ErrorWrite, IType, TypeOK, AttemptsInv
  <1>2. /\ shown \in [Row -> Shown] /\ version \in Nat
        /\ \A r \in Row : /\ shown[r].status <= version
                          /\ shown[r].details <= version
                          /\ shown[r].photos <= version
                          /\ shown[r].contractor <= version
    BY Numbers DEF IType, TypeOK, VersionInv
  <1>3. CASE shown' = shown
    BY <1>2, <1>3
  <1>4. CASE shown' = [shown EXCEPT ![a.row].status = a.seen, ![a.row].details = a.seen,
                                    ![a.row].photos = IF a.photos = 0 THEN @ ELSE a.photos,
                                    ![a.row].error = FALSE]
    <2>1. \A r \in Row : /\ shown'[r].status = IF r = a.row THEN a.seen ELSE shown[r].status
                         /\ shown'[r].details = IF r = a.row THEN a.seen ELSE shown[r].details
                         /\ shown'[r].photos \in {shown[r].photos, a.photos}
                         /\ shown'[r].contractor = shown[r].contractor
      BY <1>1, <1>2, <1>4 DEF Shown
    <2>2. shown' \in [Row -> Shown]
      BY <1>1, <1>4, ShownUpdates
    <2>3. a.seen <= version /\ a.photos <= version
      BY <1>1, ShownUpdates
    <2> QED BY <1>2, <2>1, <2>2, <2>3
  <1>5. CASE shown' = [shown EXCEPT ![a.row].contractor = a.seen]
    <2>1. \A r \in Row : /\ shown'[r].status = shown[r].status
                         /\ shown'[r].details = shown[r].details
                         /\ shown'[r].photos = shown[r].photos
                         /\ shown'[r].contractor = IF r = a.row THEN a.seen ELSE shown[r].contractor
      BY <1>1, <1>2, <1>5 DEF Shown
    <2>2. shown' \in [Row -> Shown]
      BY <1>1, <1>5, ShownUpdates
    <2>3. a.seen <= version
      BY <1>1, ShownUpdates
    <2> QED BY <1>2, <2>1, <2>2, <2>3
  <1>6. CASE shown' = [shown EXCEPT ![a.row].status = a.seen, ![a.row].error = TRUE]
    <2>1. \A r \in Row : /\ shown'[r].status = IF r = a.row THEN a.seen ELSE shown[r].status
                         /\ shown'[r].details = shown[r].details
                         /\ shown'[r].photos = shown[r].photos
                         /\ shown'[r].contractor = shown[r].contractor
      BY <1>1, <1>2, <1>6 DEF Shown
    <2>2. shown' \in [Row -> Shown]
      BY <1>1, <1>6, ShownUpdates
    <2>3. a.seen <= version
      BY <1>1, ShownUpdates
    <2> QED BY <1>2, <2>1, <2>2, <2>3
  <1> QED BY <1>3, <1>4, <1>5, <1>6
          DEF UpdateAirtableStatus, UpdateAirtableAssignedContractor, ErrorWrite

\* The steps that write to Airtable, or nothing, and leave link and rows alone
LEMMA WriteType ==
  ASSUME IType, NEW a \in running, NEW b, NEW step \in {"contractor", "failing", "end"},
         Replaces(a, b), Later(a, b, step),
         step = "contractor" => a.step = "update",
         UNCHANGED <<redisQueueActive, version, sync, attemptsMade, linked, created, crashes,
                     overlapped, unlinked, unseen>>,
         shown' \in [Row -> Shown],
         \A r \in Row : /\ shown'[r].status <= version
                        /\ shown'[r].details <= version
                        /\ shown'[r].photos <= version
                        /\ shown'[r].contractor <= version
  PROVE  IType'
  <1>1. /\ a \in Attempt /\ a.seen \in Nat /\ a.seen <= version /\ a.photos <= version
        /\ 0 <= version
    BY Numbers DEF IType, TypeOK, VersionInv, Attempt
  <1>2. b.step \in {"link", "update", "contractor", "error"} => b.row \in created'
    BY DEF Later, IType, AttemptsInv
  <1>3. /\ linked' \in created' \cup {NoRow} /\ created' = created /\ created \subseteq Row
        /\ unlinked' \in BOOLEAN
    BY DEF IType, TypeOK
  <1>4. /\ b \in Attempt /\ b.sync = a.sync /\ b.seen >= a.seen /\ b.seen <= version
        /\ b.photos <= version /\ b.step # "photos"
    BY <1>1 DEF Later
  <1> QED BY <1>2, <1>3, <1>4, ITypeGoesOn

\* An attempt that ends
LEMMA EndsType ==
  ASSUME IType, NEW a \in running, NEW s \in {"waiting", "done", "failed"}, Ends(a, s),
         attemptsMade' \in [Version -> 0 .. Attempts],
         \A v \in Version : v # a.sync => attemptsMade'[v] = attemptsMade[v],
         s = "waiting" => attemptsMade'[a.sync] < MaxAttempts,
         UNCHANGED <<redisQueueActive, version, linked, created, crashes, overlapped, unlinked>>,
         unseen' \subseteq Version, shown' \in [Row -> Shown],
         \A r \in Row : /\ shown'[r].status <= version
                        /\ shown'[r].details <= version
                        /\ shown'[r].photos <= version
                        /\ shown'[r].contractor <= version
  PROVE  IType'
  <1>1. a.sync \in Version /\ sync[a.sync] = "running" /\ a.sync <= version
    <2>1. a \in Attempt /\ a.sync <= a.seen /\ a.seen <= version /\ version \in Nat
      BY Numbers DEF IType, TypeOK, AttemptsInv, VersionInv
    <2> QED BY <2>1, Numbers DEF Attempt, IType, AttemptsInv
  <1>2. sync' = [sync EXCEPT ![a.sync] = s] /\ running' = running \ {a}
    BY DEF Ends
  <1>3. TypeOK'
    BY <1>1, <1>2 DEF IType, TypeOK, SyncState
  <1>4. \A b \in running' : b.sync # a.sync
    BY <1>2 DEF IType, AttemptsInv
  <1>5. AttemptsInv'
    BY <1>1, <1>2, <1>4 DEF IType, TypeOK, AttemptsInv, MaxAttempts, Attempt
  <1>6. VersionInv'
    BY <1>1, <1>2 DEF IType, TypeOK, VersionInv
  <1> QED BY <1>3, <1>5, <1>6 DEF IType

LEMMA AttemptingType ==
  ASSUME IType, NEW a \in running, Attempting(a)
  PROVE  IType'
  <1>0. /\ shown \in [Row -> Shown]
        /\ \A r \in Row : /\ shown[r].status <= version
                          /\ shown[r].details <= version
                          /\ shown[r].photos <= version
                          /\ shown[r].contractor <= version
    BY DEF IType, TypeOK, VersionInv
  <1>a. a \in Attempt
    BY DEF IType, TypeOK
  <1>1. ASSUME NEW applied \in BOOLEAN, NEW answered \in BOOLEAN,
               UpdateAirtableStatus(a, applied, answered)
        PROVE  IType'
    <2>1. PICK b : /\ Replaces(a, b)
                   /\ Later(a, b, IF answered THEN "contractor" ELSE "failing")
      BY <1>a, <1>1, Proceeds DEF UpdateAirtableStatus
    <2>2. /\ shown' \in [Row -> Shown]
          /\ \A r \in Row : /\ shown'[r].status <= version
                            /\ shown'[r].details <= version
                            /\ shown'[r].photos <= version
                            /\ shown'[r].contractor <= version
      BY <1>1, UpdateType
    <2>3. UNCHANGED <<redisQueueActive, version, sync, attemptsMade, linked, created, crashes,
                      overlapped, unlinked, unseen>>
      BY <1>1 DEF UpdateAirtableStatus
    <2>4. a.step = "update"
      BY <1>1 DEF UpdateAirtableStatus
    <2> QED BY <2>1, <2>2, <2>3, <2>4, WriteType
  <1>2. ASSUME NEW applied \in BOOLEAN, NEW answered \in BOOLEAN,
               UpdateAirtableAssignedContractor(a, applied, answered)
        PROVE  IType'
    <2>1. /\ shown' \in [Row -> Shown]
          /\ \A r \in Row : /\ shown'[r].status <= version
                            /\ shown'[r].details <= version
                            /\ shown'[r].photos <= version
                            /\ shown'[r].contractor <= version
      BY <1>2, UpdateType
    <2>2. CASE answered
      <3>1. /\ attemptsMade' \in [Version -> 0 .. Attempts]
            /\ \A v \in Version : v # a.sync => attemptsMade'[v] = attemptsMade[v]
        BY <1>2 DEF UpdateAirtableAssignedContractor, IType, TypeOK
      <3>2. unseen' \subseteq Version
        BY <1>a, <1>2 DEF UpdateAirtableAssignedContractor, IType, TypeOK, Attempt
      <3>3. Ends(a, "done")
        BY <1>2, <2>2 DEF UpdateAirtableAssignedContractor, Ends
      <3> QED BY <1>2, <2>1, <3>1, <3>2, <3>3, EndsType DEF UpdateAirtableAssignedContractor
    <2>3. CASE ~ answered
      <3>1. Replaces(a, Throws(a)) /\ Later(a, Throws(a), "failing")
        BY <1>a, <1>2, <2>3, Stops DEF UpdateAirtableAssignedContractor, Replaces
      <3>2. UNCHANGED <<redisQueueActive, version, sync, attemptsMade, linked, created, crashes,
                        overlapped, unlinked, unseen>>
        BY <1>2, <2>3 DEF UpdateAirtableAssignedContractor
      <3> QED BY <2>1, <3>1, <3>2, WriteType
    <2> QED BY <2>2, <2>3
  <1>3. ASSUME NEW applied \in BOOLEAN, ErrorWrite(a, applied)
        PROVE  IType'
    <2> DEFINE e == [Throws(a) EXCEPT !.step = "end"]
    <2>1. Replaces(a, e) /\ Later(a, e, "end")
      BY <1>a, <1>3, Stops DEF ErrorWrite, Replaces
    <2>2. /\ shown' \in [Row -> Shown]
          /\ \A r \in Row : /\ shown'[r].status <= version
                            /\ shown'[r].details <= version
                            /\ shown'[r].photos <= version
                            /\ shown'[r].contractor <= version
      BY <1>3, UpdateType
    <2>3. UNCHANGED <<redisQueueActive, version, sync, attemptsMade, linked, created, crashes,
                      overlapped, unlinked, unseen>>
      BY <1>3 DEF ErrorWrite
    <2> HIDE DEF e
    <2> QED BY <2>1, <2>2, <2>3, WriteType
  <1>4. CASE AttemptThrows(a)
    <2>1. Replaces(a, Throws(a)) /\ Later(a, Throws(a), "failing")
      BY <1>a, <1>4, Stops DEF AttemptThrows, Replaces
    <2>2. UNCHANGED <<redisQueueActive, version, sync, attemptsMade, linked, created, crashes,
                      overlapped, unlinked, unseen>> /\ shown' = shown
      BY <1>4 DEF AttemptThrows, airtableVars
    <2> QED BY <1>0, <2>1, <2>2, WriteType
  <1>5. ASSUME NEW works \in BOOLEAN, ErrorRead(a, works)
        PROVE  IType'
    <2>1. /\ a \in Attempt /\ a.seen \in Nat /\ a.seen <= version /\ version \in Version
          /\ version \in Nat /\ linked \in created \cup {NoRow} /\ created \subseteq Row
          /\ a.photos <= version
      BY Numbers DEF IType, TypeOK, VersionInv, Attempt
    <2> DEFINE e == [a EXCEPT !.step = "error", !.seen = version, !.row = linked]
               d == [a EXCEPT !.step = "end"]
    <2>2. /\ e \in Attempt /\ e.sync = a.sync /\ e.seen = version /\ e.row = linked
          /\ e.step = "error" /\ e.photos = a.photos
          /\ d \in Attempt /\ d.sync = a.sync /\ d.step = "end" /\ d.seen = a.seen
          /\ d.photos = a.photos
      BY <2>1 DEF Attempt, Step
    <2>3. PICK b \in {e, d} : Replaces(a, b) /\ (b = d \/ linked # NoRow)
      BY <1>5 DEF ErrorRead, Replaces
    <2> HIDE DEF e, d
    <2>4. /\ b \in Attempt /\ b.sync = a.sync /\ b.seen >= a.seen /\ b.seen <= version
          /\ b.photos <= version /\ b.step # "photos"
          /\ b.step \in {"link", "update", "contractor", "error"} => b.row \in created
      BY <2>1, <2>2, <2>3
    <2>5. /\ UNCHANGED <<redisQueueActive, version, sync, attemptsMade, crashes, unseen>>
          /\ linked' = linked /\ created' = created /\ shown' = shown
          /\ overlapped' = overlapped /\ unlinked' \in BOOLEAN
      BY <1>5 DEF ErrorRead, airtableVars, IType, TypeOK
    <2> QED BY <1>0, <2>1, <2>3, <2>4, <2>5, ITypeGoesOn
  <1>6. CASE AttemptFailed(a)
    <2>1. a.sync \in Version /\ attemptsMade[a.sync] < MaxAttempts
      BY DEF IType, TypeOK, AttemptsInv, Attempt
    <2>2. /\ attemptsMade' = [attemptsMade EXCEPT ![a.sync] = attemptsMade[a.sync] + 1]
          /\ attemptsMade \in [Version -> 0 .. Attempts]
      BY <1>6 DEF AttemptFailed, IType, TypeOK
    <2>3. attemptsMade[a.sync] + 1 \in 0 .. Attempts
      BY <2>1, <2>2, Numbers
    <2>4. /\ attemptsMade' \in [Version -> 0 .. Attempts]
          /\ \A v \in Version : v # a.sync => attemptsMade'[v] = attemptsMade[v]
          /\ attemptsMade'[a.sync] = attemptsMade[a.sync] + 1
      BY <2>1, <2>2, <2>3
    <2>5. unseen' \subseteq Version
      BY <1>6 DEF AttemptFailed, IType, TypeOK
    <2> QED BY <1>0, <1>6, <2>4, <2>5, EndsType DEF AttemptFailed, airtableVars
  <1>7. ASSUME NEW works \in BOOLEAN, ReadCompletionPhotos(a, works)
        PROVE  IType'
    BY <1>7, ReadPhotosType
  <1> QED BY <1>1, <1>2, <1>3, <1>4, <1>5, <1>6, <1>7, CreateRowType, StoreLinkType DEF Attempting

LEMMA ITypeStep == IType /\ [Next]_vars => IType'
  <1> SUFFICES ASSUME IType, [Next]_vars PROVE IType'
    OBVIOUS
  <1>1. /\ version \in Nat /\ version \in Version /\ MaxVersion \in Nat
        /\ \A a \in running : /\ a.sync \in Nat /\ a.seen \in Nat /\ a.photos \in Nat
                              /\ a.sync \in Version
        /\ \A r \in Row : /\ shown[r].status \in Nat
                          /\ shown[r].details \in Nat
                          /\ shown[r].photos \in Nat
                          /\ shown[r].contractor \in Nat
    BY Numbers DEF IType, TypeOK, Attempt, Shown
  <1>2. CASE JobChanges \/ JobChangesUnsynced
    <2>1. version' = version + 1 /\ version' \in Version
      BY <1>1, <1>2 DEF JobChanges, JobChangesUnsynced, Version
    <2>2. \A v \in Version : sync[v] # "none" => v # version + 1
      BY <1>1, Numbers DEF IType, VersionInv
    <2>3. /\ sync' \in [Version -> SyncState]
          /\ \A v \in Version : \/ sync'[v] = sync[v]
                                \/ v = version + 1 /\ sync[v] = "none" /\ sync'[v] = "owed"
      BY <1>2, <2>1, <2>2 DEF JobChanges, JobChangesUnsynced, IType, TypeOK, SyncState
    <2>4. UNCHANGED <<redisQueueActive, attemptsMade, running, linked, created, shown, crashes,
                      overlapped, unlinked, unseen>>
      BY <1>2 DEF JobChanges, JobChangesUnsynced, airtableVars
    <2>5. TypeOK'
      BY <2>1, <2>3, <2>4 DEF IType, TypeOK
    <2>6. AttemptsInv'
      BY <1>1, <2>3, <2>4 DEF IType, AttemptsInv, MaxAttempts
    <2>7. VersionInv'
      BY <1>1, <2>1, <2>3, <2>4, Numbers DEF IType, VersionInv
    <2> QED BY <2>5, <2>6, <2>7 DEF IType
  <1>3. ASSUME NEW v \in Version, EnqueueAirtableSync(v) \/ EnqueueFails(v)
        PROVE  IType'
    BY <1>3 DEF EnqueueAirtableSync, EnqueueFails, IType, TypeOK, SyncState, AttemptsInv,
                VersionInv, MaxAttempts, airtableVars, Attempt
  <1>4. ASSUME NEW v \in Version, ProcessSyncJob(v)
        PROVE  IType'
    <2> DEFINE n == [sync |-> v, step |-> "photos", seen |-> version, photos |-> 0,
                     row |-> linked]
    <2>1. /\ n \in Attempt /\ n.sync = v /\ n.seen = version /\ n.row = linked
          /\ n.photos = 0 /\ n.step = "photos" /\ n.row \in created \cup {NoRow}
      BY <1>1, Steps DEF Attempt, IType, TypeOK
    <2>2. running' = running \cup {n}
      BY <1>4 DEF ProcessSyncJob
    <2> HIDE DEF n
    <2>3. /\ sync[v] = "waiting" /\ sync' = [sync EXCEPT ![v] = "running"]
          /\ overlapped' \in BOOLEAN
          /\ UNCHANGED <<redisQueueActive, version, attemptsMade, linked, created, shown, crashes,
                         unlinked, unseen>>
      BY <1>4 DEF ProcessSyncJob, airtableVars
    <2>4. \A a \in running : a.sync # v
      BY <2>3 DEF IType, AttemptsInv
    <2>5. v <= version /\ version <= version /\ 0 <= version
      BY <1>1, <2>3 DEF IType, VersionInv
    <2>6. TypeOK'
      BY <2>1, <2>2, <2>3 DEF IType, TypeOK, SyncState
    <2>7. AttemptsInv'
      BY <1>1, <2>1, <2>2, <2>3, <2>4 DEF IType, TypeOK, AttemptsInv, MaxAttempts
    <2>8. VersionInv'
      BY <2>1, <2>2, <2>3, <2>5 DEF IType, TypeOK, VersionInv
    <2> QED BY <2>6, <2>7, <2>8 DEF IType
  <1>5. CASE Crash
    <2>1. \A v \in Version : /\ sync'[v] \in SyncState
                             /\ sync'[v] # "none" => sync[v] # "none"
                             /\ sync'[v] \in {"none", "owed", "waiting", "running"} =>
                                  sync[v] \in {"none", "owed", "waiting", "running"}
      BY <1>5 DEF Crash, IType, TypeOK, SyncState
    <2>2. (unlinked \/ \E a \in running : a.step = "link") \in BOOLEAN
      OBVIOUS
    <2>3. crashes' \in 0 .. MaxCrashes
      BY <1>5, SyncAssumption DEF Crash, IType, TypeOK
    <2>4. /\ running' = {} /\ unlinked' \in BOOLEAN /\ sync' \in [Version -> SyncState]
          /\ UNCHANGED <<redisQueueActive, version, attemptsMade, linked, created, shown, overlapped,
                         unseen>>
      BY <1>5, <2>1, <2>2 DEF Crash, airtableVars
    <2> QED BY <2>1, <2>3, <2>4 DEF IType, TypeOK, AttemptsInv, VersionInv, MaxAttempts
  <1>6. CASE UNCHANGED vars
    BY <1>6 DEF vars, airtableVars, IType, TypeOK, AttemptsInv, VersionInv, MaxAttempts
  <1> QED BY <1>2, <1>3, <1>4, <1>5, <1>6, AttemptingType DEF Next

\* Every reachable state is well-formed, and nothing is newer than the job.
LEMMA ITypeInit == Init => IType
  <1> SUFFICES ASSUME Init PROVE IType
    OBVIOUS
  <1>1. /\ 1 \in Version /\ MaxAttempts >= 1 /\ 0 \in 0 .. Attempts /\ 0 \in 0 .. MaxCrashes
        /\ 0 \in 0 .. MaxVersion
    BY Numbers, SyncAssumption DEF Version, MaxAttempts
  <1> DEFINE blank == [status |-> 0, details |-> 0, photos |-> 0, contractor |-> 0,
                       error |-> FALSE]
  <1>2. /\ blank \in Shown /\ blank.status = 0 /\ blank.details = 0 /\ blank.photos = 0
        /\ blank.contractor = 0
    BY <1>1 DEF Shown
  <1>3. shown = [r \in Row |-> blank]
    BY DEF Init
  <1> HIDE DEF blank
  <1>4. \A v \in Version : sync[v] = IF v = 1 THEN "owed" ELSE "none"
    BY DEF Init
  <1>5. TypeOK
    <2>1. sync \in [Version -> SyncState]
      BY DEF Init, SyncState
    <2>2. attemptsMade \in [Version -> 0 .. Attempts]
      BY <1>1 DEF Init
    <2>3. shown \in [Row -> Shown]
      BY <1>2, <1>3
    <2> QED BY <1>1, <2>1, <2>2, <2>3 DEF Init, TypeOK
  <1>6. AttemptsInv
    BY <1>1, Numbers DEF Init, AttemptsInv
  <1>7. VersionInv
    <2>1. \A v \in Version : sync[v] # "none" => v <= version
      BY <1>4 DEF Init
    <2>2. \A r \in Row : shown[r] = blank
      BY <1>3
    <2> QED BY <1>2, <2>1, <2>2 DEF Init, VersionInv
  <1> QED BY <1>5, <1>6, <1>7 DEF IType

THEOREM AlwaysIType == Spec => []IType
  BY ITypeInit, ITypeStep, PTL DEF Spec

-----------------------------------------------------------------------------
(* As long as no two attempts have run at once *)

Calm == IType /\ CalmInv /\ RowsInv /\ ~ overlapped

\* What is known of the attempt there is
LEMMA Lone ==
  ASSUME Calm, NEW a \in running
  PROVE  /\ running = {a} /\ Alone(a)
         /\ a \in Attempt /\ a.sync \in Version /\ a.sync <= a.seen /\ a.seen <= version
         /\ a.sync \in Nat /\ a.seen \in Nat /\ a.photos \in Nat /\ version \in Nat
         /\ sync[a.sync] = "running"
         /\ NoRow \notin Row /\ created \subseteq Row
         /\ a.step \in {"link", "update", "contractor", "error"} => a.row \in created
         /\ shown \in [Row -> Shown]
         /\ \A r \in Row : /\ shown[r].status \in Nat
                           /\ shown[r].details \in Nat
                           /\ shown[r].photos \in Nat
                           /\ shown[r].contractor \in Nat
  <1>1. Alone(a)
    BY DEF Calm, CalmInv
  <1>2. running = {a}
    BY <1>1 DEF Alone
  <1>3. a \in Attempt /\ a.sync <= a.seen /\ a.seen <= version /\ version \in Nat
    BY Numbers DEF Calm, IType, TypeOK, VersionInv
  <1>4. a.sync \in Version /\ a.sync \in Nat /\ a.seen \in Nat /\ a.photos \in Nat
    BY <1>3, Numbers DEF Attempt
  <1>5. shown \in [Row -> Shown] /\ created \subseteq Row /\ NoRow \notin Row
    BY SyncAssumption DEF Calm, IType, TypeOK
  <1>6. \A r \in Row : /\ shown[r].status \in Nat
                       /\ shown[r].details \in Nat
                       /\ shown[r].photos \in Nat
                       /\ shown[r].contractor \in Nat
    BY <1>5, Numbers DEF Shown
  <1> QED BY <1>1, <1>2, <1>3, <1>4, <1>5, <1>6 DEF Calm, IType, AttemptsInv

\* Finished syncs stay shown when the linked row only gets newer.
LEMMA HealsOn ==
  ASSUME MirrorHeals, ~ overlapped, unseen' = unseen,
         linked' = linked, linked \in Row \cup {NoRow},
         \A r \in Row : /\ shown[r].status \in Nat /\ shown'[r].status \in Nat
                        /\ shown[r].details \in Nat /\ shown'[r].details \in Nat
                        /\ shown[r].photos \in Nat /\ shown'[r].photos \in Nat
                        /\ shown[r].contractor \in Nat /\ shown'[r].contractor \in Nat
                        /\ shown'[r].status >= shown[r].status
                        /\ shown'[r].details >= shown[r].details
                        /\ shown'[r].photos >= shown[r].photos
                        /\ shown'[r].contractor >= shown[r].contractor,
         \A v \in Version : sync'[v] = "done" => sync[v] = "done"
  PROVE  MirrorHeals'
  BY Numbers DEF MirrorHeals

\* Steps outside the attempts: nothing is shown, and no sync finishes.
LEMMA CalmOutside ==
  ASSUME Calm, ~ overlapped',
         UNCHANGED <<linked, airtableVars, unseen>>,
         running' \in {running, {}},
         \A v \in Version : /\ sync'[v] = "done" => sync[v] = "done"
                            /\ sync[v] \in {"waiting", "running", "failed", "lost"} =>
                                 sync'[v] \in {"waiting", "running", "failed", "lost"}
  PROVE  CalmInv'
  <1>1. CalmInv /\ ~ overlapped
    BY DEF Calm
  <1>2. \A a \in running : Alone(a)
    BY <1>1 DEF CalmInv
  <1>3. ASSUME NEW a \in running' PROVE Alone(a)'
    <2>1. a \in running /\ running' = running
      BY <1>3
    <2> QED BY <1>2, <2>1 DEF Alone, airtableVars
  <1>4. MirrorHeals'
    BY <1>1 DEF CalmInv, MirrorHeals, airtableVars
  <1>5. ErrorExplained'
    BY <1>1 DEF CalmInv, ErrorExplained, airtableVars
  <1> QED BY <1>3, <1>4, <1>5 DEF CalmInv

LEMMA ProcessSyncJobCalm ==
  ASSUME Calm, NEW v \in Version, ProcessSyncJob(v), ~ overlapped'
  PROVE  CalmInv'
  <1>1. CalmInv /\ ~ overlapped /\ running = {} /\ sync \in [Version -> SyncState]
    BY DEF Calm, ProcessSyncJob, IType, TypeOK
  <1>2. PICK b : /\ running' = {b} /\ b.seen = version /\ b.row = linked
                 /\ b.step = "photos" /\ b.photos = 0
    <2> DEFINE n == [sync |-> v, step |-> "photos", seen |-> version, photos |-> 0,
                     row |-> linked]
    <2>1. running' = {n}
      BY <1>1 DEF ProcessSyncJob
    <2>2. n.seen = version /\ n.row = linked /\ n.step = "photos" /\ n.photos = 0
      OBVIOUS
    <2> HIDE DEF n
    <2> QED BY <2>1, <2>2
  <1>3. UNCHANGED <<linked, created, shown, version, unseen>>
    BY DEF ProcessSyncJob, airtableVars
  <1>4. \A w \in Version : sync'[w] = IF w = v THEN "running" ELSE sync[w]
    BY <1>1 DEF ProcessSyncJob
  <1>5. \A r \in Row : /\ shown[r].status <= version
                       /\ shown[r].details <= version
                       /\ shown[r].photos <= version
                       /\ shown[r].contractor <= version
    BY DEF Calm, IType, VersionInv
  <1>6. Alone(b)'
    BY <1>2, <1>3, <1>5 DEF Alone
  <1>7. MirrorHeals'
    BY <1>1, <1>3, <1>4 DEF CalmInv, MirrorHeals
  <1>8. ErrorExplained'
    BY <1>1, <1>3, <1>4 DEF CalmInv, ErrorExplained
  <1> QED BY <1>2, <1>6, <1>7, <1>8 DEF CalmInv

LEMMA ReadPhotosCalm ==
  ASSUME Calm, NEW a \in running, NEW works \in BOOLEAN, ReadCompletionPhotos(a, works)
  PROVE  CalmInv'
  <1>1. /\ UNCHANGED <<version, sync, linked, created, shown, unseen>>
        /\ version \in Version /\ a.step = "photos" /\ a.row = linked
    BY Lone DEF ReadCompletionPhotos, airtableVars, Calm, IType, TypeOK, Alone
  <1>2. PICK b : /\ running' = {b} /\ b.seen = a.seen /\ b.row = a.row
                 /\ b.step = (IF a.row = NoRow THEN "create" ELSE "update")
                 /\ b.photos = (IF works THEN version ELSE 0)
    BY <1>1, Lone, PhotosRead DEF Replaces
  <1>3. \A r \in Row : shown[r].photos <= version
    BY DEF Calm, IType, VersionInv
  <1>4. Alone(b)'
    BY <1>1, <1>2, <1>3, Lone DEF Alone
  <1>5. MirrorHeals' /\ ErrorExplained'
    BY <1>1 DEF Calm, CalmInv, MirrorHeals, ErrorExplained
  <1> QED BY <1>2, <1>4, <1>5 DEF CalmInv

LEMMA CreateRowCalm ==
  ASSUME Calm, NEW a \in running, NEW r \in Row, NEW answered \in BOOLEAN,
         CreateRow(a, r, answered)
  PROVE  CalmInv'
  <1>1. PICK b : /\ running' = {b} /\ b.seen = a.seen
                 /\ b.step = (IF answered THEN "link" ELSE "failing")
                 /\ b.photos = 0 \/ b.photos = a.photos
                 /\ answered => b.row = r
    <2> DEFINE l == [a EXCEPT !.step = "link", !.row = r]
               f == Throws(a)
    <2>1. l.step = "link" /\ l.seen = a.seen /\ l.row = r /\ l.photos = a.photos
      BY Lone DEF Attempt
    <2>2. f.step = "failing" /\ f.seen = a.seen /\ (f.photos = 0 \/ f.photos = a.photos)
      BY Lone, Stops DEF Later
    <2>3. running' = {IF answered THEN l ELSE f}
      BY Lone DEF CreateRow
    <2> HIDE DEF l, f
    <2> QED BY <2>1, <2>2, <2>3
  <1> DEFINE n == [status |-> a.seen, details |-> a.seen, photos |-> a.photos, contractor |-> 0,
                   error |-> FALSE]
  <1>2. /\ n.status = a.seen /\ n.details = a.seen /\ n.photos = a.photos
        /\ n.contractor = 0 /\ n.error = FALSE
        /\ shown' = [shown EXCEPT ![r] = n]
    BY DEF CreateRow
  <1> HIDE DEF n
  <1>3. \A q \in Row : shown'[q] = IF q = r THEN n ELSE shown[q]
    BY <1>2, Lone
  <1>4. linked = NoRow /\ linked' = NoRow /\ sync' = sync /\ unseen' = unseen
    BY Lone DEF CreateRow, Alone
  <1>5. /\ \A q \in Row : /\ shown'[q].status <= a.seen
                          /\ shown'[q].details <= a.seen
                          /\ shown'[q].contractor <= a.seen
        /\ a.photos # 0 => /\ a.seen <= a.photos
                           /\ \A q \in Row : shown'[q].photos <= a.photos
    BY <1>2, <1>3, Lone DEF CreateRow, Alone
  <1>6. Alone(b)'
    BY <1>1, <1>2, <1>3, <1>4, <1>5 DEF Alone
  <1>7. MirrorHeals' /\ ErrorExplained'
    BY <1>4 DEF Calm, CalmInv, MirrorHeals, ErrorExplained
  <1> QED BY <1>1, <1>6, <1>7 DEF CalmInv

LEMMA StoreLinkCalm ==
  ASSUME Calm, NEW a \in running, NEW works \in BOOLEAN, StoreLink(a, works)
  PROVE  CalmInv'
  <1>1. PICK b : running' = {b} /\ Later(a, b, IF works THEN "contractor" ELSE "failing")
    BY Lone, Proceeds DEF StoreLink, Replaces
  <1>2. /\ linked = NoRow /\ linked' = (IF works THEN a.row ELSE linked)
        /\ sync' = sync /\ shown' = shown /\ a.row \in Row /\ a.step = "link"
    BY Lone DEF StoreLink, Alone, airtableVars
  <1>3. Alone(b)'
    BY <1>1, <1>2, Lone DEF Alone, Later
  <1>4. MirrorHeals'
    BY <1>2 DEF Calm, CalmInv, MirrorHeals
  <1>5. ErrorExplained'
    BY <1>2, Lone DEF Alone, ErrorExplained
  <1> QED BY <1>1, <1>3, <1>4, <1>5 DEF CalmInv

LEMMA UpdateStatusCalm ==
  ASSUME Calm, NEW a \in running, NEW applied \in BOOLEAN, NEW answered \in BOOLEAN,
         UpdateAirtableStatus(a, applied, answered)
  PROVE  /\ CalmInv'
         /\ \A r \in Row : /\ shown'[r].status >= shown[r].status
                           /\ shown'[r].details >= shown[r].details
                           /\ shown'[r].photos >= shown[r].photos
                           /\ shown'[r].contractor >= shown[r].contractor
  <1>1. PICK b : running' = {b} /\ Later(a, b, IF answered THEN "contractor" ELSE "failing")
    BY Lone, Proceeds DEF UpdateAirtableStatus, Replaces
  <1>2. /\ linked # NoRow /\ a.row = linked /\ a.row \in Row
        /\ linked' = linked /\ sync' = sync /\ created' = created /\ unseen' = unseen
    BY Lone DEF UpdateAirtableStatus, Alone
  <1>3. \A r \in Row :
           /\ shown'[r].status = IF applied /\ r = a.row THEN a.seen ELSE shown[r].status
           /\ shown'[r].details = IF applied /\ r = a.row THEN a.seen ELSE shown[r].details
           /\ shown'[r].photos = IF applied /\ r = a.row /\ a.photos # 0 THEN a.photos
                                                                       ELSE shown[r].photos
           /\ shown'[r].contractor = shown[r].contractor
           /\ shown'[r].error = IF applied /\ r = a.row THEN FALSE ELSE shown[r].error
    <2>1. CASE applied
      <3>1. shown' = [shown EXCEPT ![a.row].status = a.seen, ![a.row].details = a.seen,
                                   ![a.row].photos = IF a.photos = 0 THEN @ ELSE a.photos,
                                   ![a.row].error = FALSE]
        BY <2>1 DEF UpdateAirtableStatus
      <3>2. shown \in [Row -> Shown]
        BY Lone
      <3> QED BY <1>2, <2>1, <3>1, <3>2 DEF Shown
    <2>2. CASE ~ applied
      <3>1. shown' = shown
        BY <2>2 DEF UpdateAirtableStatus
      <3> QED BY <2>2, <3>1
    <2> QED BY <2>1, <2>2
  <1>4. /\ Alone(a) /\ a.seen \in Nat /\ a.photos \in Nat
        /\ \A r \in Row : /\ shown[r].status \in Nat /\ shown[r].status <= a.seen
                          /\ shown[r].details \in Nat /\ shown[r].details <= a.seen
                          /\ shown[r].photos \in Nat
                          /\ a.photos # 0 => shown[r].photos <= a.photos
                          /\ shown[r].contractor \in Nat /\ shown[r].contractor <= a.seen
    BY Lone DEF UpdateAirtableStatus, Alone
  <1>5. \A r \in Row : /\ shown'[r].status <= a.seen /\ shown'[r].status >= shown[r].status
                       /\ shown'[r].details <= a.seen /\ shown'[r].details >= shown[r].details
                       /\ shown'[r].photos >= shown[r].photos
                       /\ a.photos # 0 => shown'[r].photos <= a.photos
                       /\ shown'[r].contractor <= a.seen
                       /\ shown'[r].contractor >= shown[r].contractor
                       /\ shown'[r].status \in Nat /\ shown'[r].details \in Nat
                       /\ shown'[r].photos \in Nat /\ shown'[r].contractor \in Nat
    <2> SUFFICES ASSUME NEW r \in Row
                 PROVE  /\ shown'[r].status <= a.seen /\ shown'[r].status >= shown[r].status
                        /\ shown'[r].details <= a.seen /\ shown'[r].details >= shown[r].details
                        /\ shown'[r].photos >= shown[r].photos
                        /\ a.photos # 0 => shown'[r].photos <= a.photos
                        /\ shown'[r].contractor <= a.seen
                        /\ shown'[r].contractor >= shown[r].contractor
                        /\ shown'[r].status \in Nat /\ shown'[r].details \in Nat
                        /\ shown'[r].photos \in Nat /\ shown'[r].contractor \in Nat
      OBVIOUS
    <2>0. /\ a.seen \in Nat /\ a.photos \in Nat
          /\ shown[r].status \in Nat /\ shown[r].status <= a.seen
          /\ shown[r].details \in Nat /\ shown[r].details <= a.seen
          /\ shown[r].photos \in Nat /\ (a.photos # 0 => shown[r].photos <= a.photos)
          /\ shown[r].contractor \in Nat /\ shown[r].contractor <= a.seen
          /\ shown'[r].contractor = shown[r].contractor
      BY <1>3, <1>4
    <2>1. CASE applied /\ r = a.row
      <3>1. /\ shown'[r].status = a.seen /\ shown'[r].details = a.seen
            /\ shown'[r].photos = IF a.photos # 0 THEN a.photos ELSE shown[r].photos
        BY <1>3, <2>1
      <3> QED BY <2>0, <3>1
    <2>2. CASE ~ (applied /\ r = a.row)
      <3>1. /\ shown'[r].status = shown[r].status /\ shown'[r].details = shown[r].details
            /\ shown'[r].photos = shown[r].photos
        BY <1>3, <2>2
      <3> QED BY <2>0, <3>1
    <2> QED BY <2>1, <2>2
  <1>6. answered => applied
    BY DEF UpdateAirtableStatus
  <1>7. Alone(b)'
    <2>1. /\ \A c \in running' : c = b
          /\ b.seen = a.seen /\ b.row = a.row
          /\ b.step = (IF answered THEN "contractor" ELSE "failing")
          /\ b.step = "contractor" => b.photos = a.photos
      BY <1>1 DEF Later
    <2>2. /\ a.row = linked' /\ linked' # NoRow
          /\ a.photos # 0 => a.seen <= a.photos
      BY <1>2, <1>4 DEF Alone, UpdateAirtableStatus
    <2>3. answered => /\ shown'[a.row].status = a.seen /\ shown'[a.row].details = a.seen
                      /\ a.photos # 0 => shown'[a.row].photos = a.photos
                      /\ ~ shown'[a.row].error
      BY <1>2, <1>3, <1>6
    <2> QED BY <1>5, <2>1, <2>2, <2>3 DEF Alone
  <1>8. MirrorHeals'
    BY <1>2, <1>4, <1>5, HealsOn DEF Calm, CalmInv
  <1>9. ErrorExplained'
    BY <1>2, <1>3 DEF Calm, CalmInv, ErrorExplained, UpdateAirtableStatus
  <1> QED BY <1>1, <1>5, <1>7, <1>8, <1>9 DEF CalmInv

LEMMA ContractorCalm ==
  ASSUME Calm, NEW a \in running, NEW applied \in BOOLEAN, NEW answered \in BOOLEAN,
         UpdateAirtableAssignedContractor(a, applied, answered)
  PROVE  /\ CalmInv'
         /\ \A r \in Row : /\ shown'[r].status >= shown[r].status
                           /\ shown'[r].details >= shown[r].details
                           /\ shown'[r].photos >= shown[r].photos
                           /\ shown'[r].contractor >= shown[r].contractor
  <1>1. /\ a.step = "contractor" /\ linked # NoRow /\ a.row = linked /\ a.row \in Row
        /\ linked' = linked /\ created' = created /\ (answered => applied)
    BY Lone DEF UpdateAirtableAssignedContractor, Alone
  <1>2. \A r \in Row :
           /\ shown'[r].status = shown[r].status
           /\ shown'[r].details = shown[r].details
           /\ shown'[r].photos = shown[r].photos
           /\ shown'[r].contractor = IF applied /\ r = a.row THEN a.seen ELSE shown[r].contractor
           /\ shown'[r].error = shown[r].error
    <2>1. CASE applied
      <3>1. shown' = [shown EXCEPT ![a.row].contractor = a.seen]
        BY <2>1 DEF UpdateAirtableAssignedContractor
      <3> QED BY <1>1, <2>1, <3>1, Lone DEF Shown
    <2>2. CASE ~ applied
      BY <2>2 DEF UpdateAirtableAssignedContractor
    <2> QED BY <2>1, <2>2
  <1>3. /\ Alone(a) /\ a.seen \in Nat /\ a.photos \in Nat /\ a.sync \in Nat /\ a.sync <= a.seen
        /\ \A r \in Row : /\ shown[r].status \in Nat
                          /\ shown[r].details \in Nat
                          /\ shown[r].photos \in Nat
                          /\ shown[r].contractor \in Nat
    BY Lone
  <1>4. \A r \in Row : /\ shown'[r].status <= a.seen /\ shown'[r].status >= shown[r].status
                       /\ shown'[r].details <= a.seen /\ shown'[r].details >= shown[r].details
                       /\ shown'[r].photos >= shown[r].photos
                       /\ shown'[r].contractor <= a.seen
                       /\ shown'[r].contractor >= shown[r].contractor
                       /\ shown'[r].status \in Nat /\ shown'[r].details \in Nat
                       /\ shown'[r].photos \in Nat
                       /\ shown'[r].contractor \in Nat
    BY <1>2, <1>3 DEF Alone
  <1>5. ErrorExplained'
    BY <1>1, <1>2, <1>3 DEF Alone, ErrorExplained
  <1>6. CASE answered
    <2>1. /\ running' = {} /\ sync' = [sync EXCEPT ![a.sync] = "done"]
          /\ unseen' = IF a.photos = 0 THEN unseen \cup {a.sync} ELSE unseen
      BY <1>6, Lone DEF UpdateAirtableAssignedContractor
    <2>2. \A v \in Version : v # a.sync => sync'[v] = sync[v]
      BY <2>1 DEF Calm, IType, TypeOK
    <2>3. MirrorHeals'
      <3> SUFFICES ASSUME NEW v \in Version, sync'[v] = "done"
                   PROVE  /\ linked' # NoRow
                          /\ shown'[linked'].status >= v
                          /\ shown'[linked'].details >= v
                          /\ shown'[linked'].contractor >= v
                          /\ v \in unseen' \/ shown'[linked'].photos >= v
        BY DEF MirrorHeals
      <3>1. v \in Nat
        BY Numbers
      <3>2. CASE v = a.sync
        <4>1. a.photos = 0 => v \in unseen'
          BY <2>1, <3>2
        <4>2. /\ shown[linked].status = a.seen /\ shown[linked].details = a.seen
              /\ a.photos # 0 => shown[linked].photos = a.photos /\ a.seen <= a.photos
          BY <1>1, <1>3 DEF Alone
        <4>3. /\ shown'[linked].status = a.seen /\ shown'[linked].details = a.seen
              /\ shown'[linked].photos = shown[linked].photos
              /\ shown'[linked].contractor = a.seen
          BY <1>1, <1>2, <1>6, <4>2
        <4> QED BY <1>1, <1>3, <3>2, <4>1, <4>2, <4>3
      <3>3. CASE v # a.sync
        <4>1. /\ shown[linked].status >= v /\ shown[linked].details >= v
              /\ shown[linked].contractor >= v
              /\ v \in unseen \/ shown[linked].photos >= v
          BY <2>2, <3>3 DEF Calm, CalmInv, MirrorHeals
        <4> QED BY <1>1, <1>3, <1>4, <2>1, <3>1, <4>1
      <3> QED BY <3>2, <3>3
    <2> QED BY <1>4, <1>5, <2>1, <2>3 DEF CalmInv
  <1>7. CASE ~ answered
    <2>1. PICK b : running' = {b} /\ Later(a, b, "failing")
      BY <1>7, Lone, Stops DEF UpdateAirtableAssignedContractor
    <2>2. sync' = sync /\ unseen' = unseen
      BY <1>7 DEF UpdateAirtableAssignedContractor
    <2>3. Alone(b)'
      BY <1>2, <1>3, <1>4, <2>1 DEF Alone, Later
    <2>4. MirrorHeals'
      BY <1>1, <1>3, <1>4, <2>2, HealsOn DEF Calm, CalmInv
    <2> QED BY <1>4, <1>5, <2>1, <2>3, <2>4 DEF CalmInv
  <1> QED BY <1>6, <1>7

LEMMA ErrorReadCalm ==
  ASSUME Calm, NEW a \in running, NEW works \in BOOLEAN, ErrorRead(a, works)
  PROVE  CalmInv'
  <1>1. /\ linked' = linked /\ sync' = sync /\ shown' = shown /\ created' = created
        /\ unseen' = unseen /\ version \in Version /\ linked \in Row \cup {NoRow}
    BY DEF ErrorRead, airtableVars, Calm, IType, TypeOK
  <1>2. \A r \in Row : /\ shown[r].status <= version
                       /\ shown[r].details <= version
                       /\ shown[r].photos <= version
                       /\ shown[r].contractor <= version
    BY DEF Calm, IType, VersionInv
  <1>3. PICK b : /\ running' = {b}
                 /\ \/ b.step = "error" /\ b.seen = version /\ b.row = linked /\ linked # NoRow
                    \/ b.step = "end" /\ b.seen = a.seen
    <2> DEFINE e == [a EXCEPT !.step = "error", !.seen = version, !.row = linked]
               d == [a EXCEPT !.step = "end"]
    <2>1. /\ e.step = "error" /\ e.seen = version /\ e.row = linked
          /\ d.step = "end" /\ d.seen = a.seen
      BY Lone DEF Attempt
    <2>2. \/ running' = {e} /\ linked # NoRow
          \/ running' = {d}
      BY Lone DEF ErrorRead
    <2> HIDE DEF e, d
    <2> QED BY <2>1, <2>2
  <1>4. Alone(b)'
    BY <1>1, <1>2, <1>3, Lone DEF Alone
  <1>5. MirrorHeals' /\ ErrorExplained'
    BY <1>1 DEF Calm, CalmInv, MirrorHeals, ErrorExplained
  <1> QED BY <1>3, <1>4, <1>5 DEF CalmInv

LEMMA ErrorWriteCalm ==
  ASSUME Calm, NEW a \in running, NEW applied \in BOOLEAN, ErrorWrite(a, applied)
  PROVE  /\ CalmInv'
         /\ \A r \in Row : /\ shown'[r].status >= shown[r].status
                           /\ shown'[r].details >= shown[r].details
                           /\ shown'[r].photos >= shown[r].photos
                           /\ shown'[r].contractor >= shown[r].contractor
  <1>1. PICK b : running' = {b} /\ Later(a, b, "end")
    BY Lone, Stops DEF ErrorWrite
  <1>2. /\ linked # NoRow /\ a.row = linked /\ a.row \in Row
        /\ linked' = linked /\ sync' = sync /\ unseen' = unseen
    BY Lone DEF ErrorWrite, Alone
  <1>3. \A r \in Row :
           /\ shown'[r].status = IF applied /\ r = a.row THEN a.seen ELSE shown[r].status
           /\ shown'[r].details = shown[r].details
           /\ shown'[r].photos = shown[r].photos
           /\ shown'[r].contractor = shown[r].contractor
    <2>1. CASE applied
      <3>1. shown' = [shown EXCEPT ![a.row].status = a.seen, ![a.row].error = TRUE]
        BY <2>1 DEF ErrorWrite
      <3> QED BY <1>2, <2>1, <3>1, Lone DEF Shown
    <2>2. CASE ~ applied
      BY <2>2 DEF ErrorWrite
    <2> QED BY <2>1, <2>2
  <1>4. /\ Alone(a) /\ a.seen \in Nat /\ a.sync \in Version /\ sync[a.sync] = "running"
        /\ \A r \in Row : /\ shown[r].status \in Nat
                          /\ shown[r].details \in Nat
                          /\ shown[r].photos \in Nat
                          /\ shown[r].contractor \in Nat
    BY Lone
  <1>5. \A r \in Row : /\ shown'[r].status <= a.seen /\ shown'[r].status >= shown[r].status
                       /\ shown'[r].details <= a.seen /\ shown'[r].details >= shown[r].details
                       /\ shown'[r].photos >= shown[r].photos
                       /\ shown'[r].contractor <= a.seen
                       /\ shown'[r].contractor >= shown[r].contractor
                       /\ shown'[r].status \in Nat /\ shown'[r].details \in Nat
                       /\ shown'[r].photos \in Nat
                       /\ shown'[r].contractor \in Nat
    BY <1>3, <1>4 DEF Alone
  <1>6. Alone(b)'
    BY <1>1, <1>3, <1>4, <1>5 DEF Alone, Later
  <1>7. MirrorHeals'
    BY <1>2, <1>4, <1>5, HealsOn DEF Calm, CalmInv
  <1>8. ErrorExplained'
    BY <1>2, <1>4 DEF ErrorExplained
  <1> QED BY <1>1, <1>5, <1>6, <1>7, <1>8 DEF CalmInv

LEMMA AttemptThrowsCalm ==
  ASSUME Calm, NEW a \in running, AttemptThrows(a)
  PROVE  CalmInv'
  <1>1. PICK b : running' = {b} /\ Later(a, b, "failing")
    BY Lone, Stops DEF AttemptThrows
  <1>2. UNCHANGED <<linked, sync, shown, created, unseen>>
    BY DEF AttemptThrows, airtableVars
  <1>3. Alone(b)'
    BY <1>1, <1>2, Lone DEF Alone, Later
  <1>4. MirrorHeals' /\ ErrorExplained'
    BY <1>2 DEF Calm, CalmInv, MirrorHeals, ErrorExplained
  <1> QED BY <1>1, <1>3, <1>4 DEF CalmInv

\* Steps outside the attempts, without the one that starts an attempt
LEMMA OutsideStep ==
  ASSUME Calm, ~ overlapped',
         \/ JobChanges \/ JobChangesUnsynced \/ Crash \/ UNCHANGED vars
         \/ \E v \in Version : EnqueueAirtableSync(v) \/ EnqueueFails(v)
  PROVE  CalmInv'
  <1>1. /\ sync \in [Version -> SyncState] /\ version \in Nat /\ version + 1 > version
        /\ \A v \in Version : sync[v] # "none" => v <= version
    BY Numbers DEF Calm, IType, TypeOK, VersionInv
  <1>2. CASE JobChanges
    <2>1. \A v \in Version : v # version + 1 => sync'[v] = sync[v]
      BY <1>1, <1>2 DEF JobChanges
    <2>2. version + 1 \in Version => sync[version + 1] = "none" /\ sync'[version + 1] = "owed"
      BY <1>1, <1>2 DEF JobChanges
    <2> QED BY <1>2, <2>1, <2>2, CalmOutside DEF JobChanges
  <1>3. CASE JobChangesUnsynced
    BY <1>3, CalmOutside DEF JobChangesUnsynced
  <1>4. CASE Crash
    <2>1. \A v \in Version :
             sync'[v] = CASE sync[v] = "owed" -> "lost"
                          [] sync[v] \in {"waiting", "running"} ->
                               IF redisQueueActive THEN "waiting" ELSE "lost"
                          [] OTHER -> sync[v]
      BY <1>4 DEF Crash
    <2>2. \A v \in Version : /\ sync'[v] = "done" => sync[v] = "done"
                             /\ sync[v] \in {"waiting", "running", "failed", "lost"} =>
                                  sync'[v] \in {"waiting", "running", "failed", "lost"}
      BY <2>1
    <2> QED BY <1>4, <2>2, CalmOutside DEF Crash
  <1>5. ASSUME NEW v \in Version, EnqueueAirtableSync(v) \/ EnqueueFails(v)
        PROVE  CalmInv'
    <2>1. \A w \in Version : w # v => sync'[w] = sync[w]
      BY <1>1, <1>5 DEF EnqueueAirtableSync, EnqueueFails
    <2>2. sync[v] = "owed" /\ sync'[v] \in {"waiting", "lost"}
      BY <1>1, <1>5 DEF EnqueueAirtableSync, EnqueueFails
    <2> QED BY <1>5, <2>1, <2>2, CalmOutside DEF EnqueueAirtableSync, EnqueueFails
  <1>6. CASE UNCHANGED vars
    BY <1>6, CalmOutside DEF vars
  <1> QED BY <1>2, <1>3, <1>4, <1>5, <1>6

LEMMA AttemptFailedCalm ==
  ASSUME Calm, NEW a \in running, AttemptFailed(a)
  PROVE  CalmInv'
  <1>1. /\ running' = {} /\ UNCHANGED <<linked, created, shown, unseen>>
        /\ sync' = [sync EXCEPT ![a.sync] =
                      IF attemptsMade[a.sync] + 1 < MaxAttempts THEN "waiting" ELSE "failed"]
    BY Lone DEF AttemptFailed, Ends, airtableVars
  <1>2. /\ \A v \in Version : v # a.sync => sync'[v] = sync[v]
        /\ sync'[a.sync] \in {"waiting", "failed"} /\ a.sync \in Version
    BY <1>1, Lone DEF Calm, IType, TypeOK
  <1>3. MirrorHeals'
    BY <1>1, <1>2 DEF Calm, CalmInv, MirrorHeals
  <1>4. ErrorExplained'
    BY <1>2 DEF ErrorExplained
  <1> QED BY <1>1, <1>3, <1>4 DEF CalmInv

\* Whether two attempts have run at once, and whether a link is missing, is
\* never forgotten.
LEMMA Remembered == [Next]_vars => (overlapped => overlapped') /\ (unlinked => unlinked')
  <1> SUFFICES ASSUME [Next]_vars
               PROVE  (overlapped => overlapped') /\ (unlinked => unlinked')
    OBVIOUS
  <1>1. CASE JobChanges \/ JobChangesUnsynced \/ Crash
    <2>1. overlapped' = overlapped
      BY <1>1 DEF JobChanges, JobChangesUnsynced, Crash
    <2>2. unlinked => unlinked'
      BY <1>1 DEF JobChanges, JobChangesUnsynced, Crash
    <2> QED BY <2>1, <2>2
  <1>2. CASE \E v \in Version : EnqueueAirtableSync(v) \/ EnqueueFails(v)
    BY <1>2 DEF EnqueueAirtableSync, EnqueueFails
  <1>3. CASE \E v \in Version : ProcessSyncJob(v)
    <2>1. overlapped' = (overlapped \/ running # {})
      BY <1>3 DEF ProcessSyncJob
    <2>2. unlinked' = unlinked
      BY <1>3 DEF ProcessSyncJob
    <2> QED BY <2>1, <2>2
  <1>4. CASE UNCHANGED vars
    BY <1>4 DEF vars
  <1>5. ASSUME NEW a \in running, Attempting(a)
        PROVE  (overlapped => overlapped') /\ (unlinked => unlinked')
    <2>1. ASSUME NEW r \in Row, NEW answered \in BOOLEAN, CreateRow(a, r, answered)
          PROVE  (overlapped => overlapped') /\ (unlinked => unlinked')
      BY <2>1 DEF CreateRow
    <2>2. ASSUME NEW works \in BOOLEAN, StoreLink(a, works)
          PROVE  (overlapped => overlapped') /\ (unlinked => unlinked')
      BY <2>2 DEF StoreLink
    <2>3. ASSUME NEW works \in BOOLEAN, ReadCompletionPhotos(a, works) \/ ErrorRead(a, works)
          PROVE  (overlapped => overlapped') /\ (unlinked => unlinked')
      BY <2>3 DEF ReadCompletionPhotos, ErrorRead
    <2>4. ASSUME NEW applied \in BOOLEAN, NEW answered \in BOOLEAN,
                 \/ UpdateAirtableStatus(a, applied, answered)
                 \/ UpdateAirtableAssignedContractor(a, applied, answered)
                 \/ ErrorWrite(a, applied)
          PROVE  (overlapped => overlapped') /\ (unlinked => unlinked')
      BY <2>4 DEF UpdateAirtableStatus, UpdateAirtableAssignedContractor, ErrorWrite
    <2>5. CASE AttemptThrows(a) \/ AttemptFailed(a)
      BY <2>5 DEF AttemptThrows, AttemptFailed
    <2> QED BY <1>5, <2>1, <2>2, <2>3, <2>4, <2>5 DEF Attempting
  <1> QED BY <1>1, <1>2, <1>3, <1>4, <1>5 DEF Next

LEMMA CalmStep ==
  ASSUME IInv, [Next]_vars
  PROVE  CalmInv'
  <1> SUFFICES ASSUME ~ overlapped' PROVE CalmInv'
    BY DEF CalmInv
  <1>1. Calm
    BY Remembered DEF Calm, IInv
  <1>2. CASE \E a \in running : Attempting(a)
    BY <1>1, <1>2, ReadPhotosCalm, CreateRowCalm, StoreLinkCalm, ErrorReadCalm, UpdateStatusCalm, ContractorCalm,
       ErrorWriteCalm, AttemptThrowsCalm, AttemptFailedCalm DEF Attempting
  <1>3. CASE \E v \in Version : ProcessSyncJob(v)
    BY <1>1, <1>3, ProcessSyncJobCalm
  <1> QED BY <1>1, <1>2, <1>3, OutsideStep DEF Next

LEMMA RowsStep ==
  ASSUME IInv, [Next]_vars
  PROVE  RowsInv'
  <1> SUFFICES ASSUME ~ overlapped', ~ unlinked'
               PROVE  \/ created' \subseteq {linked'}
                      \/ \E a \in running' : a.step = "link" /\ created' = {a.row}
    BY DEF RowsInv
  <1>1. Calm /\ ~ unlinked
    BY Remembered DEF Calm, IInv
  <1>2. \/ created \subseteq {linked}
        \/ \E a \in running : a.step = "link" /\ created = {a.row}
    BY <1>1 DEF Calm, RowsInv
  <1>3. ASSUME NEW a \in running, NEW r \in Row, NEW answered \in BOOLEAN, CreateRow(a, r, answered)
        PROVE  \E b \in running' : b.step = "link" /\ created' = {b.row}
    <2>1. linked = NoRow /\ a.step = "create"
      BY <1>1, <1>3, Lone DEF CreateRow, Alone
    <2>2. created = {}
      BY <1>1, <1>2, <1>3, <2>1, Lone
    <2>3. answered
      BY <1>3 DEF CreateRow
    <2> DEFINE b == [a EXCEPT !.step = "link", !.row = r]
    <2>4. b \in running' /\ b.step = "link" /\ b.row = r
      BY <1>1, <1>3, <2>3, Lone DEF CreateRow, Attempt
    <2>5. created' = {r}
      BY <1>3, <2>2 DEF CreateRow
    <2> HIDE DEF b
    <2> QED BY <2>4, <2>5
  <1>4. ASSUME NEW a \in running, NEW works \in BOOLEAN, StoreLink(a, works)
        PROVE  created' \subseteq {linked'}
    <2>1. linked = NoRow /\ linked' = a.row /\ created' = created
      BY <1>1, <1>4, Lone DEF StoreLink, Alone, airtableVars
    <2>2. created = {a.row}
      <3>1. a.row \in created /\ a.row # NoRow /\ running = {a}
        BY <1>1, <1>4, Lone DEF StoreLink
      <3> QED BY <1>2, <2>1, <3>1
    <2> QED BY <2>1, <2>2
  <1>5. ASSUME NEW a \in running, a.step # "link", UNCHANGED <<linked, created>>
        PROVE  created' \subseteq {linked'}
    BY <1>1, <1>2, <1>5, Lone
  <1>6. CASE \E a \in running : Attempting(a)
    <2>1. ASSUME NEW a \in running,
                 \/ \E works \in BOOLEAN : ReadCompletionPhotos(a, works) \/ ErrorRead(a, works)
                 \/ \E applied, answered \in BOOLEAN :
                        \/ UpdateAirtableStatus(a, applied, answered)
                        \/ UpdateAirtableAssignedContractor(a, applied, answered)
                 \/ \E applied \in BOOLEAN : ErrorWrite(a, applied)
                 \/ AttemptThrows(a) \/ AttemptFailed(a)
          PROVE  a.step # "link" /\ UNCHANGED <<linked, created>>
      BY <2>1 DEF ReadCompletionPhotos, ErrorRead, UpdateAirtableStatus, UpdateAirtableAssignedContractor, ErrorWrite,
                  AttemptThrows, AttemptFailed, airtableVars
    <2> QED BY <1>3, <1>4, <1>5, <1>6, <2>1 DEF Attempting
  <1>7. CASE Crash
    BY <1>2, <1>7 DEF Crash, airtableVars
  <1>8. CASE JobChanges \/ JobChangesUnsynced \/ UNCHANGED vars
    BY <1>2, <1>8 DEF JobChanges, JobChangesUnsynced, vars, airtableVars
  <1>9. CASE \E v \in Version : EnqueueAirtableSync(v) \/ EnqueueFails(v) \/ ProcessSyncJob(v)
    BY <1>2, <1>9 DEF EnqueueAirtableSync, EnqueueFails, ProcessSyncJob, airtableVars
  <1> QED BY <1>6, <1>7, <1>8, <1>9 DEF Next

LEMMA IInvInit == Init => IInv
  <1> SUFFICES ASSUME Init PROVE IInv
    OBVIOUS
  <1>1. CalmInv
    BY DEF Init, CalmInv, MirrorHeals, ErrorExplained
  <1>2. RowsInv
    BY DEF Init, RowsInv
  <1> QED BY <1>1, <1>2, ITypeInit DEF IInv

\* The whole invariant holds of every reachable state.
THEOREM AlwaysIInv == Spec => []IInv
  <1>1. IInv /\ [Next]_vars => IInv'
    BY ITypeStep, CalmStep, RowsStep DEF IInv
  <1> QED BY <1>1, IInvInit, PTL DEF Spec

-----------------------------------------------------------------------------
(* What the mirror promises *)

\* No step stores a state of a sync, an attempt or a row outside its declared
\* set; in particular no sync is attempted more often than allowed.
THEOREM TypeCorrect == Spec => []TypeOK
  BY AlwaysIType, PTL DEF IType

\* Unless two attempts ran at once, the linked row shows at least the version of
\* every sync that has worked, in the fields each of them writes, and of the
\* completion photos if its attempt could read them (airtableSync.queue.ts:438
\* lets it go on without).
THEOREM MirrorHealsAlways == Spec => []MirrorHeals
  <1>1. IInv => MirrorHeals
    BY DEF IInv, CalmInv, MirrorHeals
  <1> QED BY <1>1, AlwaysIInv, PTL

\* The claim of airtableSync.queue.ts:559, of the count of the intake photos: when
\* every sync has worked, Airtable shows the latest change any of them was asked
\* for, unless two attempts ran at once.  The run airtable_latest shows what happens if they do.
THEOREM LatestUnlessOverlapped == Spec => [](~ overlapped => MirrorReflectsLatest)
  <1>1. MirrorHeals => (~ overlapped => MirrorReflectsLatest)
    BY DEF MirrorHeals, MirrorReflectsLatest
  <1> QED BY <1>1, MirrorHealsAlways, PTL

\* Unless two attempts ran at once, an error on the linked row belongs to a
\* sync that has not worked.
THEOREM ErrorExplainedAlways == Spec => []ErrorExplained
  <1>1. IInv => ErrorExplained
    BY DEF IInv, CalmInv, ErrorExplained
  <1> QED BY <1>1, AlwaysIInv, PTL

\* A job has at most one row, unless two attempts ran at once or a link was lost.
THEOREM OneRowPerJobAlways == Spec => []OneRowPerJob
  <1>1. IInv => OneRowPerJob
    <2> SUFFICES ASSUME IInv, ~ overlapped, ~ unlinked PROVE Cardinality(created) <= 1
      BY DEF OneRowPerJob
    <2>1. PICK r : created \subseteq {r}
      <3>1. \/ created \subseteq {linked}
            \/ \E a \in running : a.step = "link" /\ created = {a.row}
        BY DEF IInv, RowsInv
      <3> QED BY <3>1
    <2>2. created = {} \/ created = {r}
      BY <2>1
    <2>3. Cardinality({}) = 0 /\ Cardinality({r}) = 1
      BY FS_EmptySet, FS_Singleton
    <2> QED BY <2>2, <2>3
  <1> QED BY <1>1, AlwaysIInv, PTL

\* No write takes a row back to an older version, unless two attempts ran at once.
THEOREM NeverGoesBackAlways == Spec => NeverGoesBack
  <1> DEFINE Forward == \A r \in created :
                          \/ overlapped
                          \/ /\ shown'[r].status >= shown[r].status
                             /\ shown'[r].details >= shown[r].details
                             /\ shown'[r].photos >= shown[r].photos
                             /\ shown'[r].contractor >= shown[r].contractor
  <1>1. ASSUME IInv, [Next]_vars PROVE Forward
    <2> SUFFICES ASSUME ~ overlapped, NEW r \in created
                 PROVE  /\ shown'[r].status >= shown[r].status
                        /\ shown'[r].details >= shown[r].details
                        /\ shown'[r].photos >= shown[r].photos
                        /\ shown'[r].contractor >= shown[r].contractor
      OBVIOUS
    <2>1. Calm /\ r \in Row
      BY <1>1 DEF IInv, Calm, IType, TypeOK
    <2>2. /\ shown[r].status \in Nat /\ shown[r].details \in Nat /\ shown[r].photos \in Nat
          /\ shown[r].contractor \in Nat
      BY <2>1, Numbers DEF Calm, IType, TypeOK, Shown
    <2>3. CASE shown'[r] = shown[r]
      BY <2>2, <2>3
    <2>4. ASSUME NEW a \in running, Attempting(a), shown'[r] # shown[r]
          PROVE  \E applied, answered \in BOOLEAN :
                     \/ UpdateAirtableStatus(a, applied, answered)
                     \/ UpdateAirtableAssignedContractor(a, applied, answered)
                     \/ ErrorWrite(a, applied)
      BY <2>1, <2>4 DEF Attempting, ReadCompletionPhotos, CreateRow, StoreLink, ErrorRead, AttemptThrows, AttemptFailed,
                        airtableVars, Calm, IType, TypeOK
    <2>5. CASE \E a \in running : Attempting(a)
      BY <2>1, <2>3, <2>4, <2>5, UpdateStatusCalm, ContractorCalm, ErrorWriteCalm
    <2>6. CASE ~ \E a \in running : Attempting(a)
      <3>1. shown' = shown
        BY <1>1, <2>6 DEF Next, JobChanges, JobChangesUnsynced, EnqueueAirtableSync, EnqueueFails,
                          ProcessSyncJob, Crash, vars, airtableVars
      <3> QED BY <2>3, <3>1
    <2> QED BY <2>5, <2>6
  <1>2. IInv /\ [Next]_vars => [Forward]_vars
    BY <1>1
  <1> QED BY <1>2, AlwaysIInv, PTL DEF Spec, NeverGoesBack
=============================================================================
