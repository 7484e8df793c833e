----------------------- MODULE CompletionPhotosProofs -----------------------
(***************************************************************************)
(* Proofs about CompletionPhotos, for every limit, set of keys and number  *)
(* of requests at once.                                                    *)
(***************************************************************************)
EXTENDS CompletionPhotos, FiniteSetTheorems, TLAPS

\* A key is in one place, reserved, expired, accepted or on its way out, and no
\* request knows a key that was never inserted; a caller has one request at a
\* time.
KeysInv ==
    /\ pending \cap stale = {}
    /\ (pending \cup stale) \cap confirmed = {}
    /\ removing \cap (pending \cup stale \cup confirmed) = {}
    /\ \A m \in requests : m.keys \subseteq used
    /\ \A m, n \in requests : m.handler = n.handler => m = n

Holds(m) == m.step \in {"presign", "confirm"}

\* One transaction at a time holds the job, which is open for photos as long as
\* it does; what it counted is still true, or higher than the truth.
LockInv ==
    /\ \A m, n \in requests : Holds(m) /\ Holds(n) => m = n
    /\ \A m \in requests : Holds(m) =>
           jobStatus = "completion_reported" /\ m.accepted = Cardinality(confirmed)
    /\ \A m \in requests : m.step = "presign" => Cardinality(pending) <= m.live

IType == PhotoTypeOK /\ KeysInv

-----------------------------------------------------------------------------
(* Type correctness and the places of a key *)

\* What the record operators build: requests that have read a, l and o
LEMMA AtShape ==
  ASSUME NEW h \in Caller, NEW step \in PhotoStep, NEW keys \in SUBSET Photo
  PROVE  PhotoAt(h, step, keys) \in PhotoRequest /\ PhotoAt(h, step, keys).keys = keys
         /\ PhotoAt(h, step, keys).step = step /\ PhotoAt(h, step, keys).handler = h
  BY DEF PhotoAt, PhotoRequest

LEMMA ReadingShape ==
  ASSUME NEW h \in Caller, NEW a \in Nat, NEW l \in Nat
  PROVE  LET n == [PhotoAt(h, "presign", {}) EXCEPT !.accepted = a, !.live = l]
         IN  n \in PhotoRequest /\ n.keys = {} /\ n.step = "presign" /\ n.accepted = a /\ n.live = l
  BY DEF PhotoAt, PhotoRequest, PhotoStep

LEMMA CountingShape ==
  ASSUME NEW h \in Caller, NEW keys \in SUBSET Photo, NEW a \in Nat
  PROVE  LET n == [PhotoAt(h, "confirm", keys) EXCEPT !.accepted = a]
         IN  /\ n \in PhotoRequest /\ n.keys = keys /\ n.step = "confirm" /\ n.accepted = a
             /\ n.handler = h
  BY DEF PhotoAt, PhotoRequest, PhotoStep

LEMMA ApprovingShape ==
  ASSUME NEW h \in Caller, NEW o \in BOOLEAN
  PROVE  LET n == [PhotoAt(h, "approved", {}) EXCEPT !.override = o]
         IN  /\ n \in PhotoRequest /\ n.keys = {} /\ n.step = "approved" /\ n.override = o
             /\ n.handler = h /\ n.accepted = 0
  BY DEF PhotoAt, PhotoRequest, PhotoStep, PhotoJobStatus

LEMMA CountedShape ==
  ASSUME NEW m \in PhotoRequest, NEW a \in Nat
  PROVE  LET n == [m EXCEPT !.accepted = a]
         IN  /\ n \in PhotoRequest /\ n.keys = m.keys /\ n.step = m.step
             /\ n.override = m.override /\ n.handler = m.handler /\ n.accepted = a
  BY DEF PhotoRequest

LEMMA Counts == PhotoTypeOK => /\ IsFiniteSet(pending) /\ IsFiniteSet(confirmed)
                          /\ Cardinality(confirmed) \in Nat /\ Cardinality(pending) \in Nat
  BY PhotosAssumption, FS_CardinalityType, FS_Subset DEF PhotoTypeOK

\* What a step does to the requests: one comes in or goes on, or it is over.
Adds(n) ==
    /\ n \in PhotoRequest
    /\ n.keys \subseteq used'
    /\ \/ HandlerFree(n.handler) /\ requests' = requests \cup {n}
       \/ \E m \in requests : n.handler = m.handler /\ requests' = (requests \ {m}) \cup {n}

LEMMA NewRequests ==
  ASSUME IType, [PhotoNext]_photoVars
  PROVE  /\ requests' \subseteq PhotoRequest
         /\ \A m \in requests' : m.keys \subseteq used'
         /\ \A m, n \in requests' : m.handler = n.handler => m = n
  <1> USE DEF IType, PhotoTypeOK, KeysInv
  <1>1. Cardinality(confirmed) \in Nat /\ Cardinality(pending) \in Nat
    BY Counts
  <1>2. "presign" \in PhotoStep /\ "urls" \in PhotoStep /\ "confirm" \in PhotoStep /\ "cleanup" \in PhotoStep
        /\ PhotoJobStatus \subseteq PhotoStep
    BY DEF PhotoStep
  <1>3. used \subseteq used'
    BY DEF PhotoNext, photoVars, PresignBegin, PresignInsert, PresignRefused, UrlsIssued, UrlsFailed,
           ConfirmBegin, ConfirmCommit, ConfirmRefused, ConfirmRolledBack, CancelReservation,
           CleanupRows, RemoveObject, ApproveRead, ApproveCount, ApproveWrite, StatusRead, StatusWrite,
           ReservationExpires, PutObject, PhotoRequestLost
  <1>4. ASSUME NEW n, Adds(n)
        PROVE  /\ requests' \subseteq PhotoRequest
               /\ \A m \in requests' : m.keys \subseteq used'
               /\ \A m, o \in requests' : m.handler = o.handler => m = o
    BY <1>3, <1>4 DEF Adds, HandlerFree
  <1>5. ASSUME requests' \subseteq requests
        PROVE  /\ requests' \subseteq PhotoRequest
               /\ \A m \in requests' : m.keys \subseteq used'
               /\ \A m, o \in requests' : m.handler = o.handler => m = o
    BY <1>3, <1>5
  <1>6. ASSUME NEW h \in Caller, PresignBegin(h)
        PROVE  \E n : Adds(n)
    <2> DEFINE n == [PhotoAt(h, "presign", {}) EXCEPT !.accepted = Cardinality(confirmed),
                                                 !.live = Cardinality(pending)]
    <2>1. n \in PhotoRequest /\ n.keys = {}
      BY <1>1, ReadingShape
    <2>3. n.handler = h
      BY DEF PhotoAt
    <2>2. HandlerFree(h) /\ requests' = requests \cup {n}
      BY <1>6 DEF PresignBegin
    <2> HIDE DEF n
    <2> QED BY <2>1, <2>2, <2>3 DEF Adds
  <1>7. ASSUME NEW h \in Caller, NEW ks \in SUBSET issued, ConfirmBegin(h, ks)
        PROVE  \E n : Adds(n)
    <2> DEFINE n == [PhotoAt(h, "confirm", ks) EXCEPT !.accepted = Cardinality(confirmed)]
    <2>1. n \in PhotoRequest /\ n.keys = ks /\ n.handler = h
      BY <1>1, CountingShape
    <2>2. HandlerFree(h) /\ requests' = requests \cup {n}
      BY <1>7 DEF ConfirmBegin
    <2> HIDE DEF n
    <2> QED BY <1>3, <2>1, <2>2 DEF Adds
  <1>8. ASSUME NEW h \in Caller, NEW ks \in SUBSET issued, CancelReservation(h, ks)
        PROVE  \E n : Adds(n)
    <2> DEFINE n == PhotoAt(h, "cleanup", ks)
    <2>1. n \in PhotoRequest /\ n.keys = ks /\ n.handler = h
      BY <1>2, AtShape
    <2>2. HandlerFree(h) /\ requests' = requests \cup {n}
      BY <1>8 DEF CancelReservation
    <2> HIDE DEF n
    <2> QED BY <1>3, <2>1, <2>2 DEF Adds
  <1>9. ASSUME NEW h \in Caller, NEW override \in BOOLEAN, ApproveRead(h, override)
        PROVE  \E n : Adds(n)
    <2> DEFINE n == [PhotoAt(h, "approved", {}) EXCEPT !.override = override]
    <2>1. n \in PhotoRequest /\ n.keys = {} /\ n.handler = h
      BY ApprovingShape
    <2>2. HandlerFree(h) /\ requests' = requests \cup {n}
      BY <1>9 DEF ApproveRead
    <2> HIDE DEF n
    <2> QED BY <2>1, <2>2 DEF Adds
  <1>17. ASSUME NEW h \in Caller, NEW to \in PhotoJobStatus, StatusRead(h, to)
         PROVE  \E n : Adds(n)
    <2> DEFINE n == PhotoAt(h, to, {})
    <2>1. n \in PhotoRequest /\ n.keys = {} /\ n.handler = h
      BY <1>2, AtShape
    <2>2. HandlerFree(h) /\ requests' = requests \cup {n}
      BY <1>17 DEF StatusRead
    <2> HIDE DEF n
    <2> QED BY <2>1, <2>2 DEF Adds
  <1>11. ASSUME NEW m \in requests
         PROVE  m.keys \in SUBSET Photo /\ m.keys \in SUBSET used' /\ m.handler \in Caller
    BY <1>3 DEF PhotoRequest
  <1>10. ASSUME NEW m \in requests, NEW step \in PhotoStep, NEW ks \in SUBSET used', ks \in SUBSET Photo,
                Goes(m, step, ks)
         PROVE  \E n : Adds(n)
    <2> DEFINE n == PhotoAt(m.handler, step, ks)
    <2>1. n \in PhotoRequest /\ n.keys = ks /\ n.handler = m.handler
      BY <1>10, <1>11, AtShape
    <2>2. requests' = (requests \ {m}) \cup {n}
      BY <1>10 DEF Goes
    <2> HIDE DEF n
    <2> QED BY <2>1, <2>2 DEF Adds
  <1>12. ASSUME NEW m \in requests, NEW ks \in SUBSET Photo, PresignInsert(m, ks)
         PROVE  \E n : Adds(n)
    BY <1>2, <1>10, <1>12 DEF PresignInsert
  <1>13. ASSUME NEW m \in requests, UrlsFailed(m) \/ ConfirmRolledBack(m)
         PROVE  \E n : Adds(n)
    BY <1>2, <1>10, <1>11, <1>13 DEF UrlsFailed, ConfirmRolledBack
  <1>14. ASSUME NEW m \in requests, NEW answered \in BOOLEAN, ConfirmCommit(m, answered)
         PROVE  requests' \subseteq requests \/ \E n : Adds(n)
    BY <1>2, <1>10, <1>11, <1>14 DEF ConfirmCommit, Ends
  <1>18. ASSUME NEW m \in requests, ApproveCount(m)
         PROVE  \E n : Adds(n)
    <2> DEFINE n == [m EXCEPT !.accepted = Cardinality(confirmed)]
    <2>1. n \in PhotoRequest /\ n.keys = m.keys /\ n.handler = m.handler
      BY <1>1, CountedShape
    <2>2. requests' = (requests \ {m}) \cup {n}
      BY <1>18 DEF ApproveCount
    <2> HIDE DEF n
    <2> QED BY <1>11, <2>1, <2>2 DEF Adds
  <1>15. ASSUME \/ UNCHANGED requests
                \/ \E m \in requests : \/ PresignRefused(m) \/ UrlsIssued(m) \/ ConfirmRefused(m)
                                       \/ CleanupRows(m) \/ ApproveWrite(m) \/ StatusWrite(m)
                                       \/ PhotoRequestLost(m)
         PROVE  requests' \subseteq requests
    BY <1>15 DEF PresignRefused, UrlsIssued, ConfirmRefused, CleanupRows, ApproveWrite, StatusWrite,
                 PhotoRequestLost, Ends
  <1>16. ASSUME \/ \E k \in Photo : \/ \E works \in BOOLEAN : RemoveObject(k, works)
                                    \/ ReservationExpires(k) \/ PutObject(k)
                \/ UNCHANGED photoVars
         PROVE  UNCHANGED requests
    BY <1>16 DEF RemoveObject, ReservationExpires, PutObject, photoVars
  <1> HIDE DEF IType, PhotoTypeOK, KeysInv
  <1>20. requests' \subseteq requests \/ \E n : Adds(n)
    BY <1>6, <1>7, <1>8, <1>9, <1>12, <1>13, <1>14, <1>15, <1>16, <1>17, <1>18 DEF PhotoNext
  <1> QED BY <1>4, <1>5, <1>20

LEMMA ITypeStep == IType /\ [PhotoNext]_photoVars => IType'
  <1> SUFFICES ASSUME IType, [PhotoNext]_photoVars PROVE IType'
    OBVIOUS
  <1>1. /\ requests' \subseteq PhotoRequest
        /\ \A m \in requests' : m.keys \subseteq used'
        /\ \A m, n \in requests' : m.handler = n.handler => m = n
    BY NewRequests
  <1> USE DEF IType, PhotoTypeOK, KeysInv, photoRows
  <1>2. CASE \E h \in Caller : \/ PresignBegin(h)
                                \/ \E ks \in SUBSET issued : ConfirmBegin(h, ks) \/ CancelReservation(h, ks)
                                \/ \E override \in BOOLEAN : ApproveRead(h, override)
                                \/ \E to \in PhotoJobStatus : StatusRead(h, to)
    BY <1>1, <1>2 DEF PresignBegin, ConfirmBegin, CancelReservation, ApproveRead, StatusRead
  <1>3. ASSUME NEW m \in requests, NEW ks \in SUBSET Photo, PresignInsert(m, ks)
        PROVE  IType'
    BY <1>1, <1>3 DEF PresignInsert
  <1>4. ASSUME NEW m \in requests, NEW answered \in BOOLEAN, ConfirmCommit(m, answered)
        PROVE  IType'
    BY <1>1, <1>4 DEF ConfirmCommit, Confirmable
  <1>5. ASSUME NEW m \in requests, CleanupRows(m)
        PROVE  IType'
    BY <1>1, <1>5 DEF CleanupRows
  <1>6. ASSUME NEW m \in requests, ApproveWrite(m)
        PROVE  IType'
    <2>1. (overridden \/ m.override) \in BOOLEAN
      OBVIOUS
    <2> QED BY <1>1, <1>6, <2>1 DEF ApproveWrite, PhotoJobStatus
  <1>7. ASSUME NEW m \in requests, UrlsIssued(m)
        PROVE  IType'
    BY <1>1, <1>7 DEF UrlsIssued
  <1>8. CASE \E m \in requests : \/ PresignRefused(m) \/ UrlsFailed(m) \/ ConfirmRefused(m)
                                 \/ ConfirmRolledBack(m) \/ ApproveCount(m) \/ PhotoRequestLost(m)
    BY <1>1, <1>8 DEF PresignRefused, UrlsFailed, ConfirmRefused, ConfirmRolledBack, ApproveCount,
                      PhotoRequestLost
  <1>9. ASSUME NEW k \in Photo, NEW works \in BOOLEAN, RemoveObject(k, works)
        PROVE  IType'
    BY <1>1, <1>9 DEF RemoveObject
  <1>10. ASSUME NEW k \in Photo, ReservationExpires(k) \/ PutObject(k)
         PROVE  IType'
    BY <1>1, <1>10 DEF ReservationExpires, PutObject
  <1>11. ASSUME NEW m \in requests, StatusWrite(m)
         PROVE  IType'
    BY <1>1, <1>11 DEF StatusWrite
  <1>12. CASE UNCHANGED photoVars
    BY <1>1, <1>12 DEF photoVars
  <1> QED
    BY <1>2, <1>3, <1>4, <1>5, <1>6, <1>7, <1>8, <1>9, <1>10, <1>11, <1>12 DEF PhotoNext

\* Every reachable state is well-formed, and a key is in one place.
THEOREM AlwaysIType == PhotoSpec => []IType
  <1>1. PhotoInit => IType
    BY DEF PhotoInit, IType, PhotoTypeOK, KeysInv, PhotoJobStatus
  <1> QED BY <1>1, ITypeStep, PTL DEF PhotoSpec

\* No handler stores a status, row or request outside its declared set, and no
\* object is inBucket under a key that was not issued.
THEOREM TypeCorrect == PhotoSpec => []PhotoTypeOK
  BY AlwaysIType, PTL DEF IType

-----------------------------------------------------------------------------
(* The lock of the job row *)

\* A step that lets no request take the job, and moves nothing a holder counted
\* the wrong way
LEMMA HoldersKept ==
  ASSUME IType, LockInv, IType',
         \A m \in requests' : Holds(m) => m \in requests,
         jobStatus' = jobStatus, confirmed' = confirmed, pending' \subseteq pending
  PROVE  LockInv'
  <1>1. \A m \in requests' : m \in PhotoRequest
    BY DEF IType, PhotoTypeOK
  <1>2. /\ Cardinality(pending') <= Cardinality(pending)
        /\ Cardinality(pending') \in Nat /\ Cardinality(pending) \in Nat
    BY Counts, FS_Subset, FS_CardinalityType DEF IType
  <1>3. ASSUME NEW m \in requests', m.step = "presign"
        PROVE  Cardinality(pending') <= m.live
    <2>1. m \in requests /\ Cardinality(pending) <= m.live
      BY <1>3 DEF LockInv, Holds
    <2>2. m.live \in Nat
      BY <1>1 DEF PhotoRequest
    <2> QED BY <1>2, <2>1, <2>2
  <1> QED BY <1>3 DEF LockInv, Holds

\* A step after which nobody holds the job
LEMMA NoHolders ==
  ASSUME \A m \in requests' : ~ Holds(m)
  PROVE  LockInv'
  BY DEF LockInv, Holds

\* A request that goes on does not take the job.
LEMMA GoesOn ==
  ASSUME IType, NEW m \in requests, NEW step \in {"urls", "cleanup"}, NEW ks \in SUBSET Photo,
         Goes(m, step, ks)
  PROVE  \A n \in requests' : Holds(n) => n \in requests /\ n # m
  <1>1. m.handler \in Caller /\ step \in PhotoStep
    BY DEF IType, PhotoTypeOK, PhotoRequest, PhotoStep
  <1>2. PhotoAt(m.handler, step, ks).step = step
    BY <1>1, AtShape
  <1> QED BY <1>2 DEF Goes, Holds

\* The two commits end the only holder.
LEMMA HolderEnds ==
  ASSUME IType, LockInv, NEW m \in requests, Holds(m),
         \/ Ends(m)
         \/ \E step \in {"urls", "cleanup"}, ks \in SUBSET Photo : Goes(m, step, ks)
  PROVE  \A n \in requests' : ~ Holds(n)
  <1>1. \A n \in requests' : Holds(n) => n \in requests /\ n # m
    BY GoesOn DEF Ends
  <1> QED BY <1>1 DEF LockInv

LEMMA LockStep == IType /\ LockInv /\ [PhotoNext]_photoVars => LockInv'
  <1> SUFFICES ASSUME IType, LockInv, [PhotoNext]_photoVars PROVE LockInv'
    OBVIOUS
  <1>1. IType'
    BY ITypeStep
  <1>2. requests \subseteq PhotoRequest
    BY DEF IType, PhotoTypeOK
  <1>3. \A m \in requests : m.keys \in SUBSET Photo
    BY <1>2 DEF PhotoRequest
  <1>15. Cardinality(pending) \in Nat /\ Cardinality(confirmed) \in Nat
    BY Counts DEF IType
  <1>4. ASSUME NEW h \in Caller, PresignBegin(h)
        PROVE  LockInv'
    <2> DEFINE n == [PhotoAt(h, "presign", {}) EXCEPT !.accepted = Cardinality(confirmed),
                                                 !.live = Cardinality(pending)]
    <2>1. /\ n.step = "presign" /\ n.accepted = Cardinality(confirmed)
          /\ n.live = Cardinality(pending)
      BY DEF PhotoAt
    <2>2. /\ requests' = requests \cup {n} /\ \A m \in requests : ~ Holds(m)
          /\ jobStatus' = "completion_reported" /\ confirmed' = confirmed /\ pending' = pending
      BY <1>4 DEF PresignBegin, Locked, Holds, photoRows
    <2> HIDE DEF n
    <2> QED BY <1>15, <2>1, <2>2 DEF LockInv, Holds
  <1>5. ASSUME NEW h \in Caller, NEW ks \in SUBSET issued, ConfirmBegin(h, ks)
        PROVE  LockInv'
    <2> DEFINE n == [PhotoAt(h, "confirm", ks) EXCEPT !.accepted = Cardinality(confirmed)]
    <2>1. n.step = "confirm" /\ n.accepted = Cardinality(confirmed)
      BY DEF PhotoAt
    <2>2. /\ requests' = requests \cup {n} /\ \A m \in requests : ~ Holds(m)
          /\ jobStatus' = "completion_reported" /\ confirmed' = confirmed /\ pending' = pending
      BY <1>5 DEF ConfirmBegin, Locked, Holds, photoRows
    <2> HIDE DEF n
    <2> QED BY <2>1, <2>2 DEF LockInv, Holds
  <1>6. ASSUME NEW h \in Caller, NEW ks \in SUBSET issued, CancelReservation(h, ks)
        PROVE  LockInv'
    <2>1. PhotoAt(h, "cleanup", ks).step = "cleanup"
      BY AtShape DEF PhotoStep, IType, PhotoTypeOK
    <2>2. \A m \in requests' : Holds(m) => m \in requests
      BY <1>6, <2>1 DEF CancelReservation, Holds
    <2> QED BY <1>1, <1>6, <2>2, HoldersKept DEF CancelReservation, photoRows
  <1>7. ASSUME NEW h \in Caller, NEW override \in BOOLEAN, ApproveRead(h, override)
        PROVE  LockInv'
    <2> DEFINE n == [PhotoAt(h, "approved", {}) EXCEPT !.override = override]
    <2>1. n.step = "approved"
      BY ApprovingShape
    <2>2. requests' = requests \cup {n}
      BY <1>7 DEF ApproveRead
    <2> HIDE DEF n
    <2>3. \A m \in requests' : Holds(m) => m \in requests
      BY <2>1, <2>2 DEF Holds
    <2> QED BY <1>1, <1>7, <2>3, HoldersKept DEF ApproveRead, photoRows
  <1>8. ASSUME NEW m \in requests, NEW ks \in SUBSET Photo, PresignInsert(m, ks)
        PROVE  LockInv'
    <2>1. Holds(m) /\ Goes(m, "urls", ks)
      BY <1>8 DEF PresignInsert, Holds
    <2> QED BY <2>1, HolderEnds, NoHolders
  <1>9. ASSUME NEW m \in requests, NEW answered \in BOOLEAN, ConfirmCommit(m, answered)
        PROVE  LockInv'
    <2>1. Holds(m) /\ (Ends(m) \/ Goes(m, "cleanup", m.keys))
      BY <1>9 DEF ConfirmCommit, Confirmable, Holds
    <2> QED BY <1>3, <2>1, HolderEnds, NoHolders
  <1>10. ASSUME NEW m \in requests, UrlsFailed(m) \/ ConfirmRolledBack(m)
         PROVE  LockInv'
    <2>1. Goes(m, "cleanup", m.keys)
      BY <1>10 DEF UrlsFailed, ConfirmRolledBack
    <2>2. \A n \in requests' : Holds(n) => n \in requests
      BY <1>3, <2>1, GoesOn
    <2> QED BY <1>1, <1>10, <2>2, HoldersKept DEF UrlsFailed, ConfirmRolledBack, photoRows
  <1>11. ASSUME NEW m \in requests, \/ PresignRefused(m) \/ UrlsIssued(m) \/ ConfirmRefused(m)
                                    \/ CleanupRows(m) \/ PhotoRequestLost(m)
         PROVE  LockInv'
    BY <1>1, <1>11, HoldersKept
       DEF PresignRefused, UrlsIssued, ConfirmRefused, CleanupRows, PhotoRequestLost, Ends, photoRows
  <1>12. ASSUME NEW m \in requests, ApproveWrite(m)
         PROVE  LockInv'
    BY <1>12, NoHolders DEF ApproveWrite, Ends, Locked, Holds
  <1>13. ASSUME NEW m \in requests, StatusWrite(m)
         PROVE  LockInv'
    BY <1>13, NoHolders DEF StatusWrite, Ends, Locked, Holds
  <1>16. ASSUME NEW h \in Caller, NEW to \in PhotoJobStatus, StatusRead(h, to)
         PROVE  LockInv'
    <2>1. PhotoAt(h, to, {}).step \notin {"presign", "confirm"}
      BY AtShape DEF PhotoStep, PhotoJobStatus, IType, PhotoTypeOK
    <2>2. \A m \in requests' : Holds(m) => m \in requests
      BY <1>16, <2>1 DEF StatusRead, Holds
    <2> QED BY <1>1, <1>16, <2>2, HoldersKept DEF StatusRead, photoRows
  <1>17. ASSUME NEW m \in requests, ApproveCount(m)
         PROVE  LockInv'
    <2>1. [m EXCEPT !.accepted = Cardinality(confirmed)].step = "approved"
      BY <1>2, <1>15, <1>17, CountedShape DEF ApproveCount
    <2>2. \A n \in requests' : Holds(n) => n \in requests
      BY <1>17, <2>1 DEF ApproveCount, Holds
    <2> QED BY <1>1, <1>17, <2>2, HoldersKept DEF ApproveCount, photoRows
  <1>14. ASSUME \/ \E k \in Photo : \/ \E works \in BOOLEAN : RemoveObject(k, works)
                                    \/ ReservationExpires(k) \/ PutObject(k)
                \/ UNCHANGED photoVars
         PROVE  LockInv'
    BY <1>1, <1>14, HoldersKept
       DEF RemoveObject, ReservationExpires, PutObject, photoVars, photoRows
  <1> QED
    BY <1>4, <1>5, <1>6, <1>7, <1>8, <1>9, <1>10, <1>11, <1>12, <1>13, <1>14, <1>16, <1>17
       DEF PhotoNext

\* At most one transaction holds the job, and its counts are not too low.
THEOREM AlwaysLockInv == PhotoSpec => []LockInv
  <1>1. PhotoInit => LockInv
    BY DEF PhotoInit, LockInv
  <1> QED BY <1>1, AlwaysIType, LockStep, PTL DEF PhotoSpec

-----------------------------------------------------------------------------
(* The limit *)

\* The photos of one job are finitely many, whatever the step.
LEMMA FiniteUnion ==
  ASSUME NEW A, NEW B, IsFiniteSet(A), IsFiniteSet(B)
  PROVE  /\ IsFiniteSet(A \cup B)
         /\ Cardinality(A) \in Nat /\ Cardinality(B) \in Nat
         /\ Cardinality(A \cup B) \in Nat
         /\ Cardinality(A \cup B) <= Cardinality(A) + Cardinality(B)
  <1>1. IsFiniteSet(A \cup B) /\ IsFiniteSet(A \cap B)
    BY FS_Union, FS_Intersection
  <1>2. Cardinality(A \cup B) = Cardinality(A) + Cardinality(B) - Cardinality(A \cap B)
    BY FS_Union
  <1>3. /\ Cardinality(A) \in Nat /\ Cardinality(B) \in Nat
        /\ Cardinality(A \cup B) \in Nat /\ Cardinality(A \cap B) \in Nat
    BY <1>1, FS_CardinalityType
  <1> QED BY <1>1, <1>2, <1>3

LEMMA NoMore ==
  ASSUME NEW A, NEW B, IsFiniteSet(B), A \subseteq B, Cardinality(B) <= MaxPerJob
  PROVE  Cardinality(A) <= MaxPerJob
  <1>1. IsFiniteSet(A) /\ Cardinality(A) <= Cardinality(B)
    BY FS_Subset
  <1>2. Cardinality(A) \in Nat /\ Cardinality(B) \in Nat /\ MaxPerJob \in Nat
    BY <1>1, FS_CardinalityType, PhotosAssumption
  <1> QED BY <1>1, <1>2

\* Only ConfirmCommit accepts photos, and only PresignInsert reserves.
LEMMA OnlyConfirmAccepts ==
  ASSUME [PhotoNext]_photoVars,
         ~ \E m \in requests, answered \in BOOLEAN : ConfirmCommit(m, answered)
  PROVE  confirmed' = confirmed /\ late' = late
  BY DEF PhotoNext, photoVars, photoRows, PresignBegin, PresignInsert, PresignRefused, UrlsIssued, UrlsFailed,
         ConfirmBegin, ConfirmRefused, ConfirmRolledBack, CancelReservation,
         CleanupRows, RemoveObject, ApproveRead, ApproveCount, ApproveWrite, StatusRead, StatusWrite,
         ReservationExpires, PutObject, PhotoRequestLost

LEMMA OnlyPresignReserves ==
  ASSUME [PhotoNext]_photoVars,
         ~ \E m \in requests : \E ks \in SUBSET Photo : PresignInsert(m, ks)
  PROVE  pending' \subseteq pending
  BY DEF PhotoNext, photoVars, photoRows, PresignBegin, PresignRefused, UrlsIssued, UrlsFailed,
         ConfirmBegin, ConfirmCommit, ConfirmRefused, ConfirmRolledBack, CancelReservation,
         CleanupRows, RemoveObject, ApproveRead, ApproveCount, ApproveWrite, StatusRead, StatusWrite,
         ReservationExpires, PutObject, PhotoRequestLost

\* A job never has more accepted photos than the limit, although reservations
\* expire, are confirmed late, and are taken by several requests at once.
THEOREM AcceptedWithinCapAlways == PhotoSpec => []AcceptedWithinCap
  <1>1. PhotoInit => AcceptedWithinCap
    BY FS_EmptySet, PhotosAssumption DEF PhotoInit, AcceptedWithinCap
  <1>2. IType /\ LockInv /\ AcceptedWithinCap /\ [PhotoNext]_photoVars => AcceptedWithinCap'
    <2> SUFFICES ASSUME IType, LockInv, AcceptedWithinCap, [PhotoNext]_photoVars
                 PROVE  AcceptedWithinCap'
      OBVIOUS
    <2>1. ASSUME NEW m \in requests, NEW answered \in BOOLEAN, ConfirmCommit(m, answered)
          PROVE  AcceptedWithinCap'
      <3>1. /\ confirmed' = confirmed \cup m.keys
            /\ m.accepted + Cardinality(m.keys) <= MaxPerJob
            /\ m.accepted = Cardinality(confirmed)
        BY <2>1 DEF ConfirmCommit, Confirmable, LockInv, Holds
      <3>2. IsFiniteSet(confirmed) /\ IsFiniteSet(m.keys)
        BY Counts, FS_Subset, PhotosAssumption DEF IType, PhotoTypeOK, PhotoRequest
      <3>3. /\ Cardinality(confirmed \cup m.keys) <= Cardinality(confirmed) + Cardinality(m.keys)
            /\ Cardinality(confirmed \cup m.keys) \in Nat
            /\ Cardinality(confirmed) \in Nat /\ Cardinality(m.keys) \in Nat
        BY <3>2, FiniteUnion
      <3> QED BY <3>1, <3>3, PhotosAssumption DEF AcceptedWithinCap
    <2> QED BY <2>1, OnlyConfirmAccepts DEF AcceptedWithinCap
  <1> QED BY <1>1, <1>2, AlwaysIType, AlwaysLockInv, PTL DEF PhotoSpec

\* What presign inserts has room beside all that is accepted and reserved: under
\* the lock its counts are not too low.
LEMMA ReservedFits ==
  ASSUME IType, LockInv, NEW m \in requests, NEW ks \in SUBSET Photo, PresignInsert(m, ks)
  PROVE  Cardinality(confirmed \cup (pending \cup ks)) <= MaxPerJob
  <1>1. /\ m.accepted + m.live + Cardinality(ks) <= MaxPerJob
        /\ m.accepted = Cardinality(confirmed) /\ Cardinality(pending) <= m.live
    BY DEF PresignInsert, LockInv, Holds
  <1>2. IsFiniteSet(ks) /\ m.live \in Nat
    BY FS_Subset, PhotosAssumption DEF IType, PhotoTypeOK, PhotoRequest
  <1>3. IsFiniteSet(confirmed) /\ IsFiniteSet(pending)
    BY Counts DEF IType
  <1>4. /\ IsFiniteSet(pending \cup ks) /\ Cardinality(pending \cup ks) \in Nat
        /\ Cardinality(pending) \in Nat /\ Cardinality(ks) \in Nat
        /\ Cardinality(pending \cup ks) <= Cardinality(pending) + Cardinality(ks)
    BY <1>2, <1>3, FiniteUnion
  <1>5. /\ Cardinality(confirmed \cup (pending \cup ks)) \in Nat /\ Cardinality(confirmed) \in Nat
        /\ Cardinality(confirmed \cup (pending \cup ks))
             <= Cardinality(confirmed) + Cardinality(pending \cup ks)
    BY <1>3, <1>4, FiniteUnion
  <1> QED BY <1>1, <1>2, <1>4, <1>5, PhotosAssumption

\* What was promised fits: live reservations and the photos confirmed in time
\* are within the limit together.
THEOREM ReservationsFitAlways == PhotoSpec => []ReservationsFit
  <1>1. PhotoInit => ReservationsFit
    <2> SUFFICES ASSUME PhotoInit PROVE ReservationsFit
      OBVIOUS
    <2>1. (confirmed \ late) \cup pending = {}
      BY DEF PhotoInit
    <2> QED BY <2>1, FS_EmptySet, PhotosAssumption DEF ReservationsFit
  <1>2. IType /\ LockInv /\ ReservationsFit /\ [PhotoNext]_photoVars => ReservationsFit'
    <2> SUFFICES ASSUME IType, LockInv, ReservationsFit, [PhotoNext]_photoVars
                 PROVE  ReservationsFit'
      OBVIOUS
    <2> DEFINE promised == (confirmed \ late) \cup pending
    <2>1. IsFiniteSet(promised) /\ IsFiniteSet(confirmed) /\ IsFiniteSet(pending)
      BY Counts, FS_Subset, FiniteUnion DEF IType
    <2>2. ASSUME NEW m \in requests, NEW ks \in SUBSET Photo, PresignInsert(m, ks)
          PROVE  ReservationsFit'
      <3>1. confirmed' = confirmed /\ late' = late /\ pending' = pending \cup ks
        BY <2>2 DEF PresignInsert
      <3>2. IsFiniteSet(confirmed \cup (pending \cup ks))
        BY <2>1, FS_Subset, PhotosAssumption, FiniteUnion
      <3>3. Cardinality(confirmed \cup (pending \cup ks)) <= MaxPerJob
        BY <2>2, ReservedFits
      <3>4. (confirmed' \ late') \cup pending' \subseteq confirmed \cup (pending \cup ks)
        BY <3>1
      <3> QED BY <3>2, <3>3, <3>4, NoMore DEF ReservationsFit
    <2>3. ASSUME NEW m \in requests, NEW answered \in BOOLEAN, ConfirmCommit(m, answered)
          PROVE  (confirmed' \ late') \cup pending' \subseteq promised
      <3>1. /\ confirmed' = confirmed \cup m.keys /\ m.keys \subseteq pending \cup stale
            /\ late' = late \cup (m.keys \cap stale) /\ pending' = pending \ m.keys
        BY <2>3 DEF ConfirmCommit, Confirmable
      <3> QED BY <3>1
    <2>4. ASSUME (confirmed' \ late') \cup pending' \subseteq promised
          PROVE  ReservationsFit'
      BY <2>1, <2>4, NoMore DEF ReservationsFit
    <2>5. CASE /\ ~ \E m \in requests : \E ks \in SUBSET Photo : PresignInsert(m, ks)
               /\ ~ \E m \in requests, answered \in BOOLEAN : ConfirmCommit(m, answered)
      <3>1. confirmed' = confirmed /\ late' = late /\ pending' \subseteq pending
        BY <2>5, OnlyConfirmAccepts, OnlyPresignReserves
      <3> QED BY <2>4, <3>1
    <2> QED BY <2>2, <2>3, <2>4, <2>5
  <1> QED BY <1>1, <1>2, AlwaysIType, AlwaysLockInv, PTL DEF PhotoSpec

-----------------------------------------------------------------------------
(* Approval *)

-----------------------------------------------------------------------------
(* Approval *)

\* An approval under way has not counted the photos yet, or has found one that
\* is still there.
ApprovalsGrounded ==
    \A m \in requests : m.step = "approved" => m.accepted = 0 \/ confirmed # {}

\* No handler takes a photo out.
LEMMA NoneTaken ==
  ASSUME [PhotoNext]_photoVars
  PROVE  confirmed \subseteq confirmed'
  BY OnlyConfirmAccepts DEF ConfirmCommit

\* An approval comes in without a count, and counts what there is.
LEMMA NewApprovals ==
  ASSUME IType, [PhotoNext]_photoVars, NEW n \in requests', n.step = "approved", n \notin requests
  PROVE  n.accepted = 0 \/ confirmed # {}
  <1>1. requests \subseteq PhotoRequest
    BY DEF IType, PhotoTypeOK
  <1>2. ASSUME NEW h \in Caller, PresignBegin(h)
        PROVE  FALSE
    BY <1>2 DEF PresignBegin, PhotoAt
  <1>3. ASSUME NEW h \in Caller, NEW ks \in SUBSET issued, ConfirmBegin(h, ks) \/ CancelReservation(h, ks)
        PROVE  FALSE
    BY <1>3 DEF ConfirmBegin, CancelReservation, PhotoAt
  <1>4. ASSUME NEW m, NEW step, NEW ks, step # "approved", Goes(m, step, ks)
        PROVE  FALSE
    BY <1>4 DEF Goes, PhotoAt
  <1>5. ASSUME requests' \subseteq requests
        PROVE  FALSE
    BY <1>5
  <1>6. ASSUME NEW m \in requests, NEW ks \in SUBSET Photo, PresignInsert(m, ks)
        PROVE  FALSE
    BY <1>4, <1>6 DEF PresignInsert
  <1>7. ASSUME NEW m \in requests, UrlsFailed(m) \/ ConfirmRolledBack(m)
        PROVE  FALSE
    BY <1>4, <1>7 DEF UrlsFailed, ConfirmRolledBack
  <1>8. ASSUME NEW m \in requests, NEW answered \in BOOLEAN, ConfirmCommit(m, answered)
        PROVE  FALSE
    BY <1>4, <1>5, <1>8 DEF ConfirmCommit, Ends
  <1>9. ASSUME NEW m \in requests, \/ PresignRefused(m) \/ UrlsIssued(m) \/ ConfirmRefused(m)
                                   \/ CleanupRows(m) \/ ApproveWrite(m) \/ StatusWrite(m)
                                   \/ PhotoRequestLost(m)
        PROVE  FALSE
    BY <1>5, <1>9 DEF PresignRefused, UrlsIssued, ConfirmRefused, CleanupRows, ApproveWrite,
                      StatusWrite, PhotoRequestLost, Ends
  <1>10. ASSUME \/ \E k \in Photo : \/ \E works \in BOOLEAN : RemoveObject(k, works)
                                    \/ ReservationExpires(k) \/ PutObject(k)
                \/ UNCHANGED photoVars
         PROVE  FALSE
    BY <1>5, <1>10 DEF RemoveObject, ReservationExpires, PutObject, photoVars
  <1>11. ASSUME NEW h \in Caller, NEW to \in PhotoJobStatus, StatusRead(h, to)
         PROVE  FALSE
    BY <1>11 DEF StatusRead, PhotoAt
  <1>12. ASSUME NEW h \in Caller, NEW override \in BOOLEAN, ApproveRead(h, override)
         PROVE  n.accepted = 0
    <2>1. n = [PhotoAt(h, "approved", {}) EXCEPT !.override = override]
      BY <1>12 DEF ApproveRead
    <2> QED BY <2>1, ApprovingShape
  <1>13. ASSUME NEW m \in requests, ApproveCount(m)
         PROVE  confirmed # {}
    BY <1>13 DEF ApproveCount
  <1> QED
    BY <1>2, <1>3, <1>6, <1>7, <1>8, <1>9, <1>10, <1>11, <1>12, <1>13 DEF PhotoNext

LEMMA GroundedStep == IType /\ ApprovalsGrounded /\ [PhotoNext]_photoVars => ApprovalsGrounded'
  BY NewApprovals, NoneTaken DEF ApprovalsGrounded

\* What an approval under way has found stays true until it writes.
THEOREM AlwaysGrounded == PhotoSpec => []ApprovalsGrounded
  <1>1. PhotoInit => ApprovalsGrounded
    BY DEF PhotoInit, ApprovalsGrounded
  <1> QED BY <1>1, GroundedStep, AlwaysIType, PTL DEF PhotoSpec

LEMMA ApprovalFounded ==
  ASSUME IType, ApprovalsGrounded, NEW m \in requests, ApproveWrite(m)
  PROVE  confirmed # {} \/ m.override
  BY DEF ApproveWrite, ApprovalsGrounded, IType, PhotoTypeOK, PhotoRequest

\* Without an override an operator approves a completion only with an accepted
\* photo on file, and the photo is still there ever after.
THEOREM ApprovedHasPhotoAlways == PhotoSpec => []ApprovedHasPhoto
  <1>1. PhotoInit => ApprovedHasPhoto
    BY DEF PhotoInit, ApprovedHasPhoto
  <1>2. IType /\ ApprovedHasPhoto /\ ApprovalsGrounded /\ [PhotoNext]_photoVars => ApprovedHasPhoto'
    <2> SUFFICES ASSUME IType, ApprovedHasPhoto, ApprovalsGrounded, [PhotoNext]_photoVars
                 PROVE  ApprovedHasPhoto'
      OBVIOUS
    <2>1. ASSUME NEW m \in requests, ApproveWrite(m)
          PROVE  ApprovedHasPhoto'
      <3>1. overridden' = (overridden \/ m.override)
        BY <2>1 DEF ApproveWrite
      <3> QED BY <2>1, <3>1, ApprovalFounded, NoneTaken DEF ApprovedHasPhoto
    <2>2. CASE ~ \E m \in requests : ApproveWrite(m)
      <3>1. overridden' = overridden /\ (jobStatus' = "approved" => jobStatus = "approved")
        BY <2>2
           DEF PhotoNext, photoVars, PresignBegin, PresignInsert, PresignRefused, UrlsIssued, UrlsFailed,
               ConfirmBegin, ConfirmCommit, ConfirmRefused, ConfirmRolledBack, CancelReservation,
               CleanupRows, RemoveObject, ApproveRead, ApproveCount, StatusRead, StatusWrite,
               ReservationExpires, PutObject, PhotoRequestLost
      <3> QED BY <3>1, NoneTaken DEF ApprovedHasPhoto
    <2> QED BY <2>1, <2>2
  <1> QED BY <1>1, <1>2, AlwaysIType, AlwaysGrounded, PTL DEF PhotoSpec

-----------------------------------------------------------------------------
(* The album *)

Moves == {<<m.handler, m.step>> : m \in Moving}

\* A step that leaves the requests that move the job as they are
LEMMA MovesKept ==
  ASSUME \A m : m.step \in PhotoJobStatus => (m \in requests <=> m \in requests')
  PROVE  Moves' = Moves
  <1>1. Moving' = Moving
    BY DEF Moving
  <1> QED BY <1>1 DEF Moves

\* No step of a transfer is a status, so that what does not move the job leaves
\* the moves alone.
LEMMA OnItsWay ==
  ASSUME IType, NEW m \in requests, m.step \notin PhotoJobStatus,
         NEW step \in {"urls", "cleanup"}, NEW ks \in SUBSET Photo,
         Goes(m, step, ks) \/ Ends(m)
  PROVE  Moves' = Moves
  <1>1. m.handler \in Caller
    BY DEF IType, PhotoTypeOK, PhotoRequest
  <1>2. PhotoAt(m.handler, step, ks).step = step /\ step \notin PhotoJobStatus
    BY <1>1, AtShape DEF PhotoStep, PhotoJobStatus
  <1> QED BY <1>2, MovesKept DEF Goes, Ends

\* A mover has one request, so that its move is over with it.
LEMMA MoveEnds ==
  ASSUME IType, NEW m \in requests, m.step \in PhotoJobStatus, Ends(m)
  PROVE  /\ <<m.handler, m.step>> \in Moves
         /\ Moves' = Moves \ {<<m.handler, m.step>>}
         /\ m.handler \in Caller
  <1>1. \A n \in requests : n.handler = m.handler => n = m
    BY DEF IType, KeysInv
  <1>2. Moving' = Moving \ {m} /\ m \in Moving
    BY DEF Ends, Moving
  <1>3. \A n \in Moving : n # m => n.handler # m.handler
    BY <1>1 DEF Moving
  <1>4. m.handler \in Caller
    BY DEF IType, PhotoTypeOK, PhotoRequest
  <1> QED BY <1>2, <1>3, <1>4 DEF Moves

\* A request that looks at the job's status begins a move.
LEMMA MoveBegins ==
  ASSUME NEW n, n.step \in PhotoJobStatus, requests' = requests \cup {n}
  PROVE  Moves' = Moves \cup {<<n.handler, n.step>>}
  <1>1. Moving' = Moving \cup {n}
    BY DEF Moving
  <1> QED BY <1>1 DEF Moves

\* What comes in without a status to write leaves the moves alone.
LEMMA OtherBegins ==
  ASSUME NEW n, n.step \notin PhotoJobStatus, requests' = requests \cup {n}
  PROVE  Moves' = Moves
  BY MovesKept

LEMMA LeadsShape ==
  /\ DOMAIN Leads = PhotoJobStatus
  /\ Leads["approved"] = {"completion_reported"}
  BY DEF Leads, PhotoJobStatus

\* Every action is one of the album, or none: the other requests, their locks and
\* the bucket are the routes' own.
LEMMA AlbumStep ==
  ASSUME IType, LockInv, ApprovalsGrounded, AcceptedWithinCap', [PhotoNext]_photoVars
  PROVE  [Album!AlbumNext]_Album!albumVars
  <1> USE DEF photoRows
  <1>0. /\ \A m \in requests : m \in PhotoRequest
        /\ \A m \in requests : m.keys \in SUBSET Photo /\ m.override \in BOOLEAN /\ m.step \in PhotoStep
        /\ Cardinality(confirmed) \in Nat /\ Cardinality(pending) \in Nat
    BY Counts DEF IType, PhotoTypeOK, PhotoRequest
  <1>20. ASSUME Moves' = Moves,
                UNCHANGED <<jobStatus, overridden, pending, stale, confirmed, confirmed \cap inBucket>>
         PROVE  UNCHANGED Album!albumVars
    BY <1>20 DEF Album!albumVars, Moves
  <1>1. ASSUME NEW h \in Caller, PresignBegin(h)
        PROVE  UNCHANGED Album!albumVars
    <2> DEFINE n == [PhotoAt(h, "presign", {}) EXCEPT !.accepted = Cardinality(confirmed),
                                                 !.live = Cardinality(pending)]
    <2>1. n.step = "presign"
      BY DEF PhotoAt
    <2>2. requests' = requests \cup {n}
      BY <1>1 DEF PresignBegin
    <2> HIDE DEF n
    <2>3. Moves' = Moves
      BY <2>1, <2>2, OtherBegins DEF PhotoJobStatus
    <2> QED BY <1>1, <1>20, <2>3 DEF PresignBegin
  <1>2. ASSUME NEW h \in Caller, NEW ks \in SUBSET issued, ConfirmBegin(h, ks)
        PROVE  UNCHANGED Album!albumVars
    <2> DEFINE n == [PhotoAt(h, "confirm", ks) EXCEPT !.accepted = Cardinality(confirmed)]
    <2>1. n.step = "confirm"
      BY DEF PhotoAt
    <2>2. requests' = requests \cup {n}
      BY <1>2 DEF ConfirmBegin
    <2> HIDE DEF n
    <2>3. Moves' = Moves
      BY <2>1, <2>2, OtherBegins DEF PhotoJobStatus
    <2> QED BY <1>2, <1>20, <2>3 DEF ConfirmBegin
  <1>3. ASSUME NEW h \in Caller, NEW ks \in SUBSET issued, CancelReservation(h, ks)
        PROVE  UNCHANGED Album!albumVars
    <2> DEFINE n == PhotoAt(h, "cleanup", ks)
    <2>1. n.step = "cleanup"
      BY AtShape DEF PhotoStep, IType, PhotoTypeOK
    <2>2. requests' = requests \cup {n}
      BY <1>3 DEF CancelReservation
    <2> HIDE DEF n
    <2>3. Moves' = Moves
      BY <2>1, <2>2, OtherBegins DEF PhotoJobStatus
    <2> QED BY <1>3, <1>20, <2>3 DEF CancelReservation
  <1>4. ASSUME NEW h \in Caller, NEW override \in BOOLEAN, ApproveRead(h, override)
        PROVE  Album!BeginMove(h, "approved")
    <2> DEFINE n == [PhotoAt(h, "approved", {}) EXCEPT !.override = override]
    <2>1. n.step = "approved" /\ n.handler = h
      BY ApprovingShape
    <2>2. requests' = requests \cup {n} /\ jobStatus \in Leads["approved"]
      BY <1>4, LeadsShape DEF ApproveRead
    <2> HIDE DEF n
    <2>3. Moves' = Moves \cup {<<h, "approved">>}
      BY <2>1, <2>2, MoveBegins DEF PhotoJobStatus
    <2> QED BY <1>4, <2>2, <2>3 DEF ApproveRead, Album!BeginMove, Moves
  <1>5. ASSUME NEW h \in Caller, NEW to \in PhotoJobStatus, StatusRead(h, to)
        PROVE  Album!BeginMove(h, to)
    <2> DEFINE n == PhotoAt(h, to, {})
    <2>1. n.step = to /\ n.handler = h
      BY DEF PhotoAt
    <2>2. requests' = requests \cup {n}
      BY <1>5 DEF StatusRead
    <2> HIDE DEF n
    <2>3. Moves' = Moves \cup {<<h, to>>}
      BY <2>1, <2>2, MoveBegins
    <2> QED BY <1>5, <2>3 DEF StatusRead, Album!BeginMove, Moves
  <1>6. ASSUME NEW m \in requests, NEW ks \in SUBSET Photo, PresignInsert(m, ks)
        PROVE  Album!Reserve(ks)
    <2>1. confirmed \cup pending \cup ks \in Fitting
      <3>1. confirmed \cup pending \cup ks = confirmed \cup (pending \cup ks)
        OBVIOUS
      <3> QED BY <1>6, <3>1, ReservedFits DEF Fitting, IType, PhotoTypeOK
    <2>2. jobStatus = "completion_reported"
      BY <1>6 DEF PresignInsert, Holds, LockInv
    <2>3. ks \cap (pending \cup stale \cup confirmed) = {}
      BY <1>6 DEF PresignInsert, IType, PhotoTypeOK
    <2>4. Moves' = Moves
      BY <1>6, OnItsWay DEF PresignInsert, PhotoJobStatus
    <2> QED BY <1>6, <2>1, <2>2, <2>3, <2>4 DEF PresignInsert, Album!Reserve, Moves
  <1>7. ASSUME NEW m \in requests, NEW answered \in BOOLEAN, ConfirmCommit(m, answered)
        PROVE  Album!AcceptBatch(m.keys, m.keys \cap inBucket)
    <2>1. jobStatus = "completion_reported" /\ m.step = "confirm"
      BY <1>7 DEF ConfirmCommit, Confirmable, Holds, LockInv
    <2>2. /\ confirmed' = confirmed \cup m.keys /\ m.keys \subseteq pending \cup stale
          /\ pending' = pending \ m.keys /\ stale' = stale \ m.keys
          /\ UNCHANGED <<jobStatus, overridden, inBucket>>
          /\ Ends(m) \/ Goes(m, "cleanup", m.keys)
      BY <1>7 DEF ConfirmCommit, Confirmable
    <2>3. confirmed' \cap inBucket' = (confirmed \cap inBucket) \cup (m.keys \cap inBucket)
      BY <2>2
    <2>4. confirmed \cup m.keys \in Fitting
      BY <1>0, <2>2 DEF AcceptedWithinCap, Fitting, IType, PhotoTypeOK
    <2>5. Moves' = Moves
      BY <1>0, <2>1, <2>2, OnItsWay DEF PhotoJobStatus
    <2> QED BY <2>1, <2>2, <2>3, <2>4, <2>5 DEF Album!AcceptBatch, Moves
  <1>8. ASSUME NEW m \in requests, CleanupRows(m)
        PROVE  Album!GiveUp(m.keys)
    <2>1. Moves' = Moves
      BY <1>8, OnItsWay DEF CleanupRows, PhotoJobStatus
    <2> QED BY <1>8, <2>1 DEF CleanupRows, Album!GiveUp, Moves
  <1>9. ASSUME NEW m \in requests, ApproveWrite(m)
        PROVE  Album!Approve(m.handler, m.override) /\ m.handler \in Caller
    <2>1. confirmed # {} \/ m.override
      BY <1>9, ApprovalFounded
    <2>2. /\ <<m.handler, "approved">> \in Moves /\ Moves' = Moves \ {<<m.handler, "approved">>}
          /\ m.handler \in Caller
      BY <1>9, MoveEnds DEF ApproveWrite, PhotoJobStatus
    <2> QED BY <1>9, <2>1, <2>2 DEF ApproveWrite, Album!Approve, Moves
  <1>10. ASSUME NEW m \in requests, StatusWrite(m)
         PROVE  Album!LandMove(m.handler, m.step) /\ m.handler \in Caller /\ m.step \in DOMAIN Leads
    <2>1. /\ <<m.handler, m.step>> \in Moves /\ Moves' = Moves \ {<<m.handler, m.step>>}
          /\ m.handler \in Caller /\ m.step \in PhotoJobStatus /\ m.step # "approved"
      BY <1>10, MoveEnds DEF StatusWrite
    <2> QED BY <1>10, <2>1, LeadsShape DEF StatusWrite, Album!LandMove, Moves
  <1>11. ASSUME NEW m \in requests, ApproveCount(m)
         PROVE  UNCHANGED Album!albumVars
    <2> DEFINE n == [m EXCEPT !.accepted = Cardinality(confirmed)]
    <2>1. n.step = m.step /\ n.handler = m.handler
      BY <1>0, CountedShape
    <2>2. requests' = (requests \ {m}) \cup {n} /\ m.step = "approved"
      BY <1>11 DEF ApproveCount
    <2> HIDE DEF n
    <2>3. Moving' = (Moving \ {m}) \cup {n} /\ m \in Moving
      BY <2>1, <2>2 DEF Moving, PhotoJobStatus
    <2>4. Moves' = Moves
      BY <2>1, <2>3 DEF Moves
    <2> QED BY <1>11, <1>20, <2>4 DEF ApproveCount
  <1>12. ASSUME NEW m \in requests, \/ PresignRefused(m) \/ UrlsIssued(m) \/ UrlsFailed(m)
                                    \/ ConfirmRefused(m) \/ ConfirmRolledBack(m)
         PROVE  UNCHANGED Album!albumVars
    <2>1. /\ m.step \in {"presign", "urls", "confirm"}
          /\ Ends(m) \/ Goes(m, "cleanup", m.keys)
          /\ UNCHANGED <<jobStatus, overridden, pending, stale, confirmed, inBucket>>
      BY <1>12 DEF PresignRefused, UrlsIssued, UrlsFailed, ConfirmRefused, ConfirmRolledBack, Confirmable
    <2>2. Moves' = Moves
      BY <1>0, <2>1, OnItsWay DEF PhotoJobStatus
    <2> QED BY <1>20, <2>1, <2>2
  <1>13. ASSUME NEW m \in requests, PhotoRequestLost(m)
         PROVE  (\E move \in Moves : Album!DropMove(move)) \/ UNCHANGED Album!albumVars
    <2>1. CASE m.step \in PhotoJobStatus
      BY <1>13, <2>1, MoveEnds DEF PhotoRequestLost, Album!DropMove, Moves
    <2>2. CASE m.step \notin PhotoJobStatus
      <3>1. Moves' = Moves
        BY <1>13, <2>2, OnItsWay DEF PhotoRequestLost
      <3> QED BY <1>13, <1>20, <3>1 DEF PhotoRequestLost
    <2> QED BY <2>1, <2>2
  <1>14. ASSUME NEW k \in Photo, NEW works \in BOOLEAN, RemoveObject(k, works)
         PROVE  UNCHANGED Album!albumVars
    <2>1. confirmed' \cap inBucket' = confirmed \cap inBucket
      BY <1>14 DEF RemoveObject, IType, KeysInv
    <2>2. Moves' = Moves
      BY <1>14, MovesKept DEF RemoveObject
    <2> QED BY <1>14, <1>20, <2>1, <2>2 DEF RemoveObject
  <1>15. ASSUME NEW k \in Photo, ReservationExpires(k)
         PROVE  Album!Lapse(k)
    <2>1. Moves' = Moves
      BY <1>15, MovesKept DEF ReservationExpires
    <2> QED BY <1>15, <2>1 DEF ReservationExpires, Album!Lapse, Moves
  <1>16. ASSUME NEW k \in Photo, PutObject(k)
         PROVE  Album!Arrive(k) \/ UNCHANGED Album!albumVars
    <2>1. Moves' = Moves
      BY <1>16, MovesKept DEF PutObject
    <2>2. CASE k \in confirmed
      BY <1>16, <2>1, <2>2 DEF PutObject, Album!Arrive, Moves
    <2>3. CASE k \notin confirmed
      BY <1>16, <1>20, <2>1, <2>3 DEF PutObject
    <2> QED BY <2>2, <2>3
  <1>17. CASE UNCHANGED photoVars
    <2>1. Moves' = Moves
      BY <1>17, MovesKept DEF photoVars
    <2> QED BY <1>17, <1>20, <2>1 DEF photoVars
  <1>18. CASE \E h \in Caller : \/ PresignBegin(h)
                                 \/ \E ks \in SUBSET issued : ConfirmBegin(h, ks) \/ CancelReservation(h, ks)
                                 \/ \E override \in BOOLEAN : ApproveRead(h, override)
                                 \/ \E to \in PhotoJobStatus : StatusRead(h, to)
    <2>1. PICK h \in Caller : \/ PresignBegin(h)
                              \/ \E ks \in SUBSET issued : ConfirmBegin(h, ks) \/ CancelReservation(h, ks)
                              \/ \E override \in BOOLEAN : ApproveRead(h, override)
                              \/ \E to \in PhotoJobStatus : StatusRead(h, to)
      BY <1>18
    <2>2. UNCHANGED Album!albumVars \/ \E to \in DOMAIN Leads : Album!BeginMove(h, to)
      BY <2>1, <1>1, <1>2, <1>3, <1>4, <1>5, LeadsShape DEF PhotoJobStatus
    <2> QED BY <2>2 DEF Album!AlbumNext
  <1>19. ASSUME NEW m \in requests
         PROVE  /\ \A ks \in SUBSET Photo : Album!Reserve(ks) => Album!AlbumNext
                /\ Album!AcceptBatch(m.keys, m.keys \cap inBucket) => Album!AlbumNext
                /\ Album!GiveUp(m.keys) => Album!AlbumNext
    <2>1. m.keys \in SUBSET Photo /\ m.keys \cap inBucket \in SUBSET m.keys
      BY <1>0
    <2> QED BY <2>1 DEF Album!AlbumNext
  <1>21. ASSUME NEW m \in requests, m.handler \in Caller,
                Album!Approve(m.handler, m.override) \/ (m.step \in DOMAIN Leads /\ Album!LandMove(m.handler, m.step))
         PROVE  Album!AlbumNext
    BY <1>0, <1>21 DEF Album!AlbumNext
  <1>22. ASSUME \E move \in Moves : Album!DropMove(move)
         PROVE  Album!AlbumNext
    BY <1>22 DEF Album!AlbumNext, Moves
  <1>23. ASSUME \E k \in Photo : Album!Lapse(k) \/ Album!Arrive(k)
         PROVE  Album!AlbumNext
    BY <1>23 DEF Album!AlbumNext
  <1>24. CASE \E m \in requests :
                 \/ \E ks \in SUBSET Photo : PresignInsert(m, ks)
                 \/ PresignRefused(m) \/ UrlsIssued(m) \/ UrlsFailed(m)
                 \/ \E answered \in BOOLEAN : ConfirmCommit(m, answered)
                 \/ ConfirmRefused(m) \/ ConfirmRolledBack(m)
                 \/ CleanupRows(m) \/ ApproveCount(m) \/ ApproveWrite(m) \/ StatusWrite(m)
                 \/ PhotoRequestLost(m)
    BY <1>6, <1>7, <1>8, <1>9, <1>10, <1>11, <1>12, <1>13, <1>19, <1>21, <1>22, <1>24
  <1>25. CASE \E k \in Photo : \/ \E works \in BOOLEAN : RemoveObject(k, works)
                               \/ ReservationExpires(k) \/ PutObject(k)
    BY <1>14, <1>15, <1>16, <1>23, <1>25
  <1> QED BY <1>17, <1>18, <1>24, <1>25 DEF PhotoNext

\* CompletionPhotos implements PhotoAlbum: that photos stay within the limit and
\* come in only while the job is reported, that no cleanup takes one that was
\* accepted, and that only a request which had read the job in time opens it again
\* after an approval.
THEOREM AlbumKept == PhotoSpec => KeepsTheAlbum
  <1>1. PhotoInit => Album!AlbumInit
    <2> SUFFICES ASSUME PhotoInit PROVE Album!AlbumInit
      OBVIOUS
    <2>1. {<<m.handler, m.step>> : m \in Moving} = {}
      BY DEF PhotoInit, Moving
    <2> QED BY <2>1 DEF PhotoInit, Album!AlbumInit
  <1>2. IType /\ LockInv /\ ApprovalsGrounded /\ AcceptedWithinCap' /\ [PhotoNext]_photoVars
          => [Album!AlbumNext]_Album!albumVars
    BY AlbumStep
  <1> QED BY <1>1, <1>2, AlwaysIType, AlwaysLockInv, AlwaysGrounded, AcceptedWithinCapAlways, PTL
          DEF PhotoSpec, KeepsTheAlbum, Album!AlbumSpec
=============================================================================
