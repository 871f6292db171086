------------------------- MODULE SqueakStore_proofs -------------------------
(***************************************************************************)
(* Proofs about SqueakStore, for any number of threads, squeaks, profiles  *)
(* and keys and any limits.                                                *)
(***************************************************************************)
EXTENDS SqueakStore, FiniteSetTheorems, TLAPS

\* What the UPDATE, DELETE and INSERT statements make of the table.
LEMMA UpdateType ==
    ASSUME squeaks \in [Stored -> Row], NEW s
    PROVE  /\ \A k \in SecretKey \cup {None} :
                 /\ WithKey(s, k) \in [Stored -> Row]
                 /\ WithContent(s, k) \in [Stored -> Row]
           /\ \A b \in BOOLEAN : WithLiked(s, b) \in [Stored -> Row]
           /\ Without(s) \in [Stored \ {s} -> Row]
           /\ WithNew(s) \in [Stored \cup {s} -> Row]
<1>1. ASSUME NEW k \in SecretKey \cup {None}
      PROVE  WithKey(s, k) \in [Stored -> Row] /\ WithContent(s, k) \in [Stored -> Row]
  BY DEF WithKey, WithContent, Row
<1>2. ASSUME NEW b \in BOOLEAN PROVE WithLiked(s, b) \in [Stored -> Row]
  BY DEF WithLiked, Row
<1>3. Without(s) \in [Stored \ {s} -> Row]  BY DEF Without
<1>4. NewRow \in Row  BY DEF NewRow, Row
<1>5. WithNew(s) \in [Stored \cup {s} -> Row]  BY <1>4 DEF WithNew
<1> QED BY <1>1, <1>2, <1>3, <1>5

\* A thread that goes on to its next statement, or leaves its operation,
\* keeps everything well typed.
LEMMA ControlType ==
    ASSUME TypeOK, NEW t \in Thread, NEW label \in Label,
           pc[t] \notin {"idle", "delete_old"},
           Goto(t, label) \/ Return(t),
           UNCHANGED <<squeaks, signing, published>>
    PROVE  TypeOK'
<1>1. CASE Goto(t, label)
  BY <1>1 DEF Goto, TypeOK, Stored
<1>2. CASE Return(t)
  BY <1>2 DEF Return, TypeOK, Stored, NoLocal, Local, Label
<1> QED BY <1>1, <1>2

\* Every step keeps the tables and the threads' local variables well typed.
LEMMA TypeStep ==
    ASSUME TypeOK, [Next]_vars
    PROVE  TypeOK'
<1> USE SqueakAssumption DEF TypeOK, Stored, Local, NoLocal,
        Label, Thread, Goto, Return, Call
<1>1. ASSUME NEW t \in Caller, Request(t)
      PROVE  TypeOK'
  <2>1. ASSUME NEW s \in Squeak, MakeSqueak(t, s) PROVE TypeOK'
    BY <2>1 DEF MakeSqueak
  <2>2. ASSUME NEW s \in Squeak, DownloadSqueak(t, s) PROVE TypeOK'
    BY <2>2 DEF DownloadSqueak
  <2>3. ASSUME NEW s \in Squeak, NEW k \in SecretKey, DownloadSecretKey(t, s, k)
        PROVE TypeOK'
    BY <2>3 DEF DownloadSecretKey
  <2>4. ASSUME NEW s \in Squeak, NEW k \in SecretKey, PayForSecretKey(t, s, k)
        PROVE TypeOK'
    BY <2>4 DEF PayForSecretKey
  <2>5. ASSUME NEW s \in Squeak, NEW p \in Profile, DecryptPrivateSqueak(t, s, p)
        PROVE TypeOK'
    BY <2>5 DEF DecryptPrivateSqueak
  <2> QED BY <1>1, <2>1, <2>2, <2>3, <2>4, <2>5 DEF Request
<1>2. ASSUME NEW t \in Caller, Step(t)
      PROVE  TypeOK'
  <2>1. CASE CountSqueaks(t)
    BY <2>1, ControlType DEF CountSqueaks
  <2>2. CASE CountKeyBlock(t)
    BY <2>2, ControlType DEF CountKeyBlock
  <2>3. CASE InsertSqueak(t)
    <3>1. CASE local[t].squeak \in Stored
      BY <2>3, <3>1, ControlType DEF InsertSqueak
    <3>2. CASE local[t].squeak \notin Stored
      <4>1. squeaks' \in [Stored \cup {local[t].squeak} -> Row]
        <5>1. squeaks' = WithNew(local[t].squeak)
          BY <2>3, <3>2 DEF InsertSqueak
        <5>2. squeaks \in [Stored -> Row]
          OBVIOUS
        <5> HIDE DEF Stored, TypeOK
        <5> QED BY <5>1, <5>2, UpdateType
      <4>2. local[t].squeak \in published /\ UNCHANGED <<signing, published, local>>
        BY <2>3, <3>2 DEF InsertSqueak
      <4>3. pc' = [pc EXCEPT ![t] = "notify_squeak"]
        BY <2>3, <3>2 DEF InsertSqueak
      <4>4. squeaks' \in [Stored' -> Row] /\ Stored' \subseteq published'
        BY <4>1, <4>2
      <4>5. pc' \in [Thread -> Label] /\ local' \in [Thread -> Local]
        BY <4>2, <4>3
      <4>6. \A u \in Thread : pc'[u] \notin {"idle", "delete_old"}
                                => local'[u].squeak \in published'
        <5>1. pc[t] = "insert" BY <2>3 DEF InsertSqueak
        <5> QED BY <5>1, <4>2, <4>3
      <4>7. signing' \subseteq Profile /\ published' \subseteq Squeak
        BY <4>2
      <4> HIDE DEF Stored, Label, Local
      <4> QED BY <4>4, <4>5, <4>6, <4>7
    <3> QED BY <3>1, <3>2
  <2>4. CASE NotifySqueak(t)
    BY <2>4, ControlType DEF NotifySqueak
  <2>5. CASE CheckSecretKey(t)
    BY <2>5, ControlType DEF CheckSecretKey
  <2>6. CASE SetSecretKey(t) BY <2>6, UpdateType DEF SetSecretKey
  <2>7. CASE NotifySecretKey(t)
    BY <2>7, ControlType DEF NotifySecretKey
  <2>8. CASE UnlockGetSqueak(t)
    BY <2>8, ControlType DEF UnlockGetSqueak
  <2>9. CASE UnlockGetKey(t) BY <2>9, SMTT(30) DEF UnlockGetKey, Row
  <2>10. CASE Decrypt(t)
    BY <2>10, ControlType DEF Decrypt
  <2>11. CASE SetContent(t) BY <2>11, UpdateType DEF SetContent
  <2> QED BY <1>2, <2>1, <2>2, <2>3, <2>4, <2>5, <2>6, <2>7, <2>8, <2>9,
             <2>10, <2>11 DEF Step
<1>3. ASSUME NEW t \in Caller, ListenerRaises(t)
      PROVE  TypeOK'
  BY <1>3 DEF ListenerRaises
<1>4. ASSUME NEW t \in Worker, Retention(t)
      PROVE  TypeOK'
  <2>1. CASE ListOldSqueaks(t) BY <2>1 DEF ListOldSqueaks, Expired
  <2>2. ASSUME NEW s \in Squeak, DeleteOldSqueak(t, s) PROVE TypeOK'
    <3>1. squeaks' \in [Stored \ {s} -> Row]
      BY <2>2, UpdateType DEF DeleteOldSqueak
    <3>2. UNCHANGED <<signing, published>> /\ local' \in [Thread -> Local]
      BY <2>2 DEF DeleteOldSqueak
    <3>3. pc' \in [Thread -> Label] /\ pc[t] = "delete_old"
      BY <2>2 DEF DeleteOldSqueak
    <3>4. \A u \in Thread : pc'[u] \notin {"idle", "delete_old"}
                              => u # t /\ pc[u] = pc'[u] /\ local'[u] = local[u]
      BY <2>2 DEF DeleteOldSqueak
    <3> QED BY <3>1, <3>2, <3>3, <3>4
  <2> QED BY <1>4, <2>1, <2>2 DEF Retention
<1>5. CASE Statement
  <2>1. ASSUME NEW s \in Squeak,
               LikeSqueak(s) \/ UnlikeSqueak(s) \/ DeleteSqueak(s) \/ Age(s)
        PROVE  TypeOK'
    <3>1. UNCHANGED <<signing, published, pc, local>>
      BY <2>1 DEF LikeSqueak, UnlikeSqueak, DeleteSqueak, Age
    <3>2. \E S \in SUBSET Stored : squeaks' \in [S -> Row]
      <4>1. CASE LikeSqueak(s) BY <4>1, UpdateType DEF LikeSqueak
      <4>2. CASE UnlikeSqueak(s) BY <4>2, UpdateType DEF UnlikeSqueak
      <4>3. CASE DeleteSqueak(s) BY <4>3, UpdateType DEF DeleteSqueak
      <4>4. CASE Age(s)
        <5>1. s \in Stored /\ squeaks[s] \in Row
          BY <4>4 DEF Age
        <5>2. [squeaks[s] EXCEPT !.aged = TRUE] \in Row
          BY ONLY <5>1 DEF Row
        <5>3. [squeaks EXCEPT ![s].aged = TRUE] \in [Stored -> Row]
          BY <5>1, <5>2
        <5> QED BY <4>4, <5>3 DEF Age
      <4> QED BY <2>1, <4>1, <4>2, <4>3, <4>4
    <3> QED BY <3>1, <3>2
  <2>2. ASSUME NEW p \in Profile, ImportSigningProfile(p) \/ DeleteProfile(p)
        PROVE  TypeOK'
    BY <2>2 DEF ImportSigningProfile, DeleteProfile
  <2> QED BY <1>5, <2>1, <2>2 DEF Statement
<1>6. CASE Restart BY <1>6 DEF Restart
<1>7. CASE UNCHANGED vars BY <1>7 DEF vars
<1> QED BY <1>1, <1>2, <1>3, <1>4, <1>5, <1>6, <1>7 DEF Next

\* Type correctness: in every reachable state the rows of the squeaks table,
\* the threads and their local variables have their types, and no row and no
\* operation in progress is about a squeak that does not exist.
THEOREM TypeCorrect == Spec => []TypeOK
<1>1. Init => TypeOK
  BY DEF Init, TypeOK, Stored, Row, NewRow, Label, Local, NoLocal, Thread
<1>2. TypeOK /\ [Next]_vars => TypeOK'
  BY TypeStep
<1> QED BY <1>1, <1>2, PTL DEF Spec
-----------------------------------------------------------------------------
(* The secret keys.  That a stored key opens its squeak is not inductive   *)
(* by itself: the UPDATE statements write what the thread holds, so what a *)
(* thread holds after the check, and after the read, has to be right too,  *)
(* for as long as the thread takes to write it.                            *)

HeldKeys ==
    \A t \in Thread : pc[t] \in {"set_key", "decrypt", "set_content"}
                        => local[t].secret_key = KeyOf[local[t].squeak]

KeyInv == TypeOK /\ KeysOpenSqueaks /\ HeldKeys

\* The statements that leave the stored keys and contents alone, or delete.
LEMMA KeysKept ==
    ASSUME KeysOpenSqueaks, Stored' \subseteq Stored,
           \A s \in Stored' : /\ squeaks'[s].secret_key = squeaks[s].secret_key
                             /\ squeaks'[s].content = squeaks[s].content
    PROVE  KeysOpenSqueaks'
BY DEF KeysOpenSqueaks

\* A thread that calls, returns or moves to a statement that writes no key.
LEMMA HeldKept ==
    ASSUME TypeOK, HeldKeys, NEW t \in Thread,
           \A u \in Thread \ {t} : pc'[u] = pc[u] /\ local'[u] = local[u],
           pc'[t] \notin {"set_key", "decrypt", "set_content"}
    PROVE  HeldKeys'
BY DEF HeldKeys

LEMMA KeyStep ==
    ASSUME KeyInv, [Next]_vars
    PROVE  KeysOpenSqueaks' /\ HeldKeys'
<1> USE DEF KeyInv
<1>t. TypeOK'
  BY TypeStep
<1>1. ASSUME NEW t \in Caller, Request(t)
      PROVE  KeysOpenSqueaks' /\ HeldKeys'
  <2>1. UNCHANGED squeaks
    BY <1>1 DEF Request, MakeSqueak, DownloadSqueak, DownloadSecretKey,
                PayForSecretKey, DecryptPrivateSqueak
  <2>2. \E label \in {"count_squeaks", "get_squeak", "unlock_squeak"}, h \in Local :
           /\ pc' = [pc EXCEPT ![t] = label]
           /\ local' = [local EXCEPT ![t] = h]
    BY <1>1, SqueakAssumption
       DEF Request, MakeSqueak, DownloadSqueak, DownloadSecretKey,
           PayForSecretKey, DecryptPrivateSqueak, Call, Local
  <2>3. HeldKeys'
    BY <2>2, HeldKept DEF TypeOK, Thread
  <2> QED BY <2>1, <2>3 DEF KeysOpenSqueaks, Stored
<1>2. ASSUME NEW t \in Caller, Step(t)
      PROVE  KeysOpenSqueaks' /\ HeldKeys'
  <2> DEFINE s == local[t].squeak
  <2>1. CASE CountSqueaks(t) \/ CountKeyBlock(t) \/ NotifySqueak(t)
             \/ NotifySecretKey(t) \/ UnlockGetSqueak(t)
    <3>1. UNCHANGED squeaks
      BY <2>1 DEF CountSqueaks, CountKeyBlock, NotifySqueak, NotifySecretKey,
                  UnlockGetSqueak
    <3>2. HeldKeys'
      BY <2>1, HeldKept DEF CountSqueaks, CountKeyBlock, NotifySqueak,
         NotifySecretKey, UnlockGetSqueak, Goto, Return, TypeOK, Thread
    <3> QED BY <3>1, <3>2 DEF KeysOpenSqueaks, Stored
  <2>2. CASE InsertSqueak(t)
    <3>1. HeldKeys'
      BY <2>2, HeldKept DEF InsertSqueak, Goto, Return, TypeOK, Thread
    <3>2. KeysOpenSqueaks'
      BY <2>2 DEF InsertSqueak, WithNew, NewRow, KeysOpenSqueaks, Stored
    <3> QED BY <3>1, <3>2
  <2>3. CASE CheckSecretKey(t)
    BY <2>3 DEF CheckSecretKey, Goto, Return, TypeOK, Thread, HeldKeys,
                KeysOpenSqueaks, Stored
  <2>4. CASE SetSecretKey(t)
    <3>1. HeldKeys'
      BY <2>4, HeldKept DEF SetSecretKey, Goto, TypeOK, Thread
    <3>2. local[t].secret_key = KeyOf[s]
      BY <2>4 DEF SetSecretKey, HeldKeys, Thread
    <3>3. KeysOpenSqueaks'
      BY <2>4, <3>2 DEF SetSecretKey, WithKey, KeysOpenSqueaks, Stored, TypeOK, Row
    <3> QED BY <3>1, <3>3
  <2>5. CASE UnlockGetKey(t)
    <3>1. UNCHANGED squeaks
      BY <2>5 DEF UnlockGetKey
    <3>2. CASE s \in Stored /\ squeaks[s].secret_key # None
      <4>1. /\ pc' = [pc EXCEPT ![t] = "decrypt"]
            /\ local' = [local EXCEPT ![t].secret_key = KeyOf[s]]
        BY <2>5, <3>2 DEF UnlockGetKey, Return, KeysOpenSqueaks
      <4> QED BY <3>1, <4>1
              DEF HeldKeys, KeysOpenSqueaks, Stored, TypeOK, Thread, Local
    <3>3. CASE ~(s \in Stored /\ squeaks[s].secret_key # None)
      <4>1. HeldKeys'
        BY <2>5, <3>3, HeldKept DEF UnlockGetKey, Return, TypeOK, Thread
      <4> QED BY <3>1, <4>1 DEF KeysOpenSqueaks, Stored
    <3> QED BY <3>2, <3>3
  <2>6. CASE Decrypt(t)
    BY <2>6 DEF Decrypt, Goto, Return, TypeOK, Thread, HeldKeys,
                KeysOpenSqueaks, Stored
  <2>7. CASE SetContent(t)
    <3>1. HeldKeys'
      BY <2>7, HeldKept DEF SetContent, Return, TypeOK, Thread
    <3>2. local[t].secret_key = KeyOf[s]
      BY <2>7 DEF SetContent, HeldKeys, Thread
    <3>3. KeysOpenSqueaks'
      BY <2>7, <3>2 DEF SetContent, WithContent, KeysOpenSqueaks, Stored, TypeOK, Row
    <3> QED BY <3>1, <3>3
  <2> QED BY <1>2, <2>1, <2>2, <2>3, <2>4, <2>5, <2>6, <2>7 DEF Step
<1>3. ASSUME NEW t \in Caller, ListenerRaises(t)
      PROVE  KeysOpenSqueaks' /\ HeldKeys'
  BY <1>3, HeldKept DEF ListenerRaises, Return, TypeOK, Thread, KeysOpenSqueaks, Stored
<1>4. ASSUME NEW t \in Worker, Retention(t)
      PROVE  KeysOpenSqueaks' /\ HeldKeys'
  <2>1. CASE ListOldSqueaks(t)
    BY <2>1, HeldKept DEF ListOldSqueaks, TypeOK, Thread, KeysOpenSqueaks, Stored
  <2>2. ASSUME NEW r \in Squeak, DeleteOldSqueak(t, r)
        PROVE  KeysOpenSqueaks' /\ HeldKeys'
    <3>1. HeldKeys'
      BY <2>2, HeldKept DEF DeleteOldSqueak, TypeOK, Thread
    <3>2. KeysOpenSqueaks'
      BY <2>2, KeysKept DEF DeleteOldSqueak, Without, Stored
    <3> QED BY <3>1, <3>2
  <2> QED BY <1>4, <2>1, <2>2 DEF Retention
<1>5. CASE Statement
  <2>1. HeldKeys'
    BY <1>5 DEF Statement, LikeSqueak, UnlikeSqueak, DeleteSqueak, Age,
            ImportSigningProfile, DeleteProfile, HeldKeys
  <2>2. ASSUME NEW r \in Squeak,
               LikeSqueak(r) \/ UnlikeSqueak(r) \/ DeleteSqueak(r) \/ Age(r)
        PROVE  KeysOpenSqueaks'
    <3>1. CASE LikeSqueak(r)
      BY <3>1, KeysKept DEF LikeSqueak, WithLiked, Stored, TypeOK, Row
    <3>2. CASE UnlikeSqueak(r)
      BY <3>2, KeysKept DEF UnlikeSqueak, WithLiked, Stored, TypeOK, Row
    <3>3. CASE DeleteSqueak(r)
      BY <3>3, KeysKept DEF DeleteSqueak, Without, Stored
    <3>4. CASE Age(r)
      BY <3>4, KeysKept DEF Age, Stored, TypeOK, Row
    <3> QED BY <2>2, <3>1, <3>2, <3>3, <3>4
  <2>3. ASSUME NEW p \in Profile, ImportSigningProfile(p) \/ DeleteProfile(p)
        PROVE  KeysOpenSqueaks'
    BY <2>3 DEF ImportSigningProfile, DeleteProfile, KeysOpenSqueaks, Stored
  <2> QED BY <1>5, <2>1, <2>2, <2>3 DEF Statement
<1>6. CASE Restart
  BY <1>6 DEF Restart, KeysOpenSqueaks, HeldKeys, Stored
<1>7. CASE UNCHANGED vars
  BY <1>7 DEF vars, KeysOpenSqueaks, HeldKeys, Stored
<1> QED BY <1>1, <1>2, <1>3, <1>4, <1>5, <1>6, <1>7 DEF Next

\* The inductive invariant behind the theorems on keys.
LEMMA KeyInvariant == Spec => []KeyInv
<1>1. Init => KeyInv
  <2> SUFFICES ASSUME Init PROVE KeyInv
    OBVIOUS
  <2>1. TypeOK
    BY DEF Init, TypeOK, Stored, Row, NewRow, Label, Local, NoLocal, Thread
  <2> QED BY <2>1 DEF Init, KeyInv, KeysOpenSqueaks, HeldKeys, Stored
<1>2. KeyInv /\ [Next]_vars => KeyInv'
  BY KeyStep, TypeStep DEF KeyInv
<1> QED BY <1>1, <1>2, PTL DEF Spec

\* Every stored secret key opens its squeak and every stored content was
\* decrypted with that key, in every interleaving and after any crash.
THEOREM KeysAlwaysOpen == Spec => []KeysOpenSqueaks
BY KeyInvariant, PTL DEF KeyInv
-----------------------------------------------------------------------------
(* Rows keep their secrets.                                                *)

\* Which statements write the squeaks table.
LEMMA TableWrites ==
    ASSUME [Next]_vars
    PROVE  \/ UNCHANGED squeaks
           \/ \E t \in Caller : SetSecretKey(t) \/ SetContent(t) \/ InsertSqueak(t)
           \/ \E s \in Squeak :
                 \/ LikeSqueak(s) \/ UnlikeSqueak(s) \/ Age(s)
                 \/ DeleteSqueak(s) \/ \E t \in Worker : DeleteOldSqueak(t, s)
<1>1. ASSUME NEW t \in Caller, Request(t) \/ ListenerRaises(t)
      PROVE  UNCHANGED squeaks
  BY <1>1 DEF Request, MakeSqueak, DownloadSqueak, DownloadSecretKey,
              PayForSecretKey, DecryptPrivateSqueak, ListenerRaises
<1>2. ASSUME NEW t \in Caller, Step(t)
      PROVE  \/ UNCHANGED squeaks
             \/ SetSecretKey(t) \/ SetContent(t) \/ InsertSqueak(t)
  BY <1>2 DEF Step, CountSqueaks, CountKeyBlock, NotifySqueak, CheckSecretKey,
              NotifySecretKey, UnlockGetSqueak, UnlockGetKey, Decrypt
<1>3. ASSUME NEW t \in Worker, Retention(t)
      PROVE  UNCHANGED squeaks \/ \E s \in Squeak : DeleteOldSqueak(t, s)
  BY <1>3 DEF Retention, ListOldSqueaks
<1>4. ASSUME NEW p \in Profile, ImportSigningProfile(p) \/ DeleteProfile(p)
      PROVE  UNCHANGED squeaks
  BY <1>4 DEF ImportSigningProfile, DeleteProfile
<1>5. Restart \/ UNCHANGED vars => UNCHANGED squeaks
  BY DEF Restart, vars
<1> QED BY <1>1, <1>2, <1>3, <1>4, <1>5 DEF Next, Statement

LEMMA RowStep ==
    ASSUME KeyInv, [Next]_vars
    PROVE  \A s \in Stored \cap Stored' :
              /\ squeaks[s].secret_key # None
                    => squeaks'[s].secret_key = squeaks[s].secret_key
              /\ squeaks[s].content # None
                    => squeaks'[s].content = squeaks[s].content
<1> DEFINE Kept == \A s \in Stored \cap Stored' :
              /\ squeaks[s].secret_key # None
                    => squeaks'[s].secret_key = squeaks[s].secret_key
              /\ squeaks[s].content # None
                    => squeaks'[s].content = squeaks[s].content
<1> SUFFICES Kept
  OBVIOUS
<1> USE DEF KeyInv
<1>1. ASSUME NEW t \in Caller, SetSecretKey(t)
      PROVE  Kept
  <2>1. local[t].secret_key = KeyOf[local[t].squeak]
    BY <1>1 DEF SetSecretKey, HeldKeys, Thread
  <2> QED BY <1>1, <2>1
          DEF SetSecretKey, WithKey, KeysOpenSqueaks, Stored, TypeOK, Row
<1>2. ASSUME NEW t \in Caller, SetContent(t)
      PROVE  Kept
  <2>1. local[t].secret_key = KeyOf[local[t].squeak]
    BY <1>2 DEF SetContent, HeldKeys, Thread
  <2> QED BY <1>2, <2>1
          DEF SetContent, WithContent, KeysOpenSqueaks, Stored, TypeOK, Row
<1>3. ASSUME NEW t \in Caller, InsertSqueak(t)
      PROVE  Kept
  BY <1>3 DEF InsertSqueak, WithNew, Stored
<1>4. ASSUME NEW s \in Squeak, LikeSqueak(s) \/ UnlikeSqueak(s) \/ Age(s)
      PROVE  Kept
  <2>1. CASE LikeSqueak(s) BY <2>1 DEF LikeSqueak, WithLiked, Stored, TypeOK, Row
  <2>2. CASE UnlikeSqueak(s) BY <2>2 DEF UnlikeSqueak, WithLiked, Stored, TypeOK, Row
  <2>3. CASE Age(s) BY <2>3 DEF Age, Stored, TypeOK, Row
  <2> QED BY <1>4, <2>1, <2>2, <2>3
<1>5. ASSUME NEW s \in Squeak,
             DeleteSqueak(s) \/ \E t \in Worker : DeleteOldSqueak(t, s)
      PROVE  Kept
  BY <1>5 DEF DeleteSqueak, DeleteOldSqueak, Without, Stored
<1>6. CASE UNCHANGED squeaks
  BY <1>6 DEF Stored
<1> QED BY <1>1, <1>2, <1>3, <1>4, <1>5, <1>6, TableWrites

\* No download, purchase or unlock ever changes or erases the key or the
\* content that a row of the squeaks table already has.
THEOREM SecretsKept == Spec => RowsKeepSecrets
<1>1. KeyInv /\ [Next]_vars
        => [\A s \in Stored \cap Stored' :
              /\ squeaks[s].secret_key # None
                    => squeaks'[s].secret_key = squeaks[s].secret_key
              /\ squeaks[s].content # None
                    => squeaks'[s].content = squeaks[s].content]_vars
  BY RowStep
<1> QED BY <1>1, KeyInvariant, PTL DEF Spec, RowsKeepSecrets
-----------------------------------------------------------------------------
(* Protection from retention.                                              *)

LEMMA ProtectionStep ==
    ASSUME TypeOK, [Next]_vars, NEW s \in Stored, Protected(s), s \notin Listed
    PROVE  s \notin Listed' /\ (s \in Stored' \/ DeleteSqueak(s))
<1>1. s \in Stored' \/ DeleteSqueak(s)
  <2>1. CASE UNCHANGED squeaks
    BY <2>1 DEF Stored
  <2>2. ASSUME NEW t \in Caller, SetSecretKey(t) \/ SetContent(t) \/ InsertSqueak(t)
        PROVE  s \in Stored'
    BY <2>2 DEF SetSecretKey, SetContent, InsertSqueak, WithKey, WithContent,
                WithNew, Stored
  <2>3. ASSUME NEW r \in Squeak, LikeSqueak(r) \/ UnlikeSqueak(r) \/ Age(r)
        PROVE  s \in Stored'
    BY <2>3 DEF LikeSqueak, UnlikeSqueak, Age, WithLiked, Stored
  <2>4. ASSUME NEW r \in Squeak, DeleteSqueak(r)
        PROVE  s \in Stored' \/ DeleteSqueak(s)
    BY <2>4 DEF DeleteSqueak, Without, Stored
  <2>5. ASSUME NEW r \in Squeak, NEW t \in Worker, DeleteOldSqueak(t, r)
        PROVE  s \in Stored'
    <3>1. r # s
      BY <2>5 DEF DeleteOldSqueak, Listed
    <3> QED BY <2>5, <3>1 DEF DeleteOldSqueak, Without, Stored
  <2> QED BY <2>1, <2>2, <2>3, <2>4, <2>5, TableWrites
<1>2. \A t \in Worker : s \notin local'[t].todo
  <2>1. \A t \in Worker : s \notin local[t].todo
    BY DEF Listed
  <2>2. ASSUME NEW c \in Caller, Request(c) \/ Step(c) \/ ListenerRaises(c)
        PROVE  \A t \in Worker : local'[t] = local[t]
    <3>1. \E h : local' = [local EXCEPT ![c] = h]
      BY <2>2 DEF Request, MakeSqueak, DownloadSqueak, DownloadSecretKey,
         PayForSecretKey, DecryptPrivateSqueak, Step, CountSqueaks, CountKeyBlock,
         InsertSqueak, NotifySqueak, CheckSecretKey, SetSecretKey, NotifySecretKey,
         UnlockGetSqueak, UnlockGetKey, Decrypt, SetContent, ListenerRaises,
         Call, Goto, Return, TypeOK, Thread
    <3> QED BY <3>1, ThreadAssumption DEF TypeOK, Thread
  <2>3. ASSUME NEW w \in Worker, ListOldSqueaks(w)
        PROVE  \A t \in Worker : s \notin local'[t].todo
    BY <2>1, <2>3 DEF ListOldSqueaks, NoLocal, Expired, Protected, Liked, TypeOK, Thread
  <2>4. ASSUME NEW w \in Worker, NEW r \in Squeak, DeleteOldSqueak(w, r)
        PROVE  \A t \in Worker : s \notin local'[t].todo
    BY <2>1, <2>4 DEF DeleteOldSqueak, TypeOK, Thread, Local
  <2>5. CASE Statement
    BY <2>1, <2>5 DEF Statement, LikeSqueak, UnlikeSqueak, DeleteSqueak, Age,
                      ImportSigningProfile, DeleteProfile
  <2>6. CASE Restart
    BY <2>6 DEF Restart, NoLocal, Thread
  <2>7. CASE UNCHANGED vars
    BY <2>1, <2>7 DEF vars
  <2> QED BY <2>1, <2>2, <2>3, <2>4, <2>5, <2>6, <2>7 DEF Next, Retention
<1> QED BY <1>1, <1>2 DEF Listed

\* A squeak the user likes or wrote, and that no retention worker has listed
\* yet, is out of reach of retention until that changes.
THEOREM ProtectionHolds == Spec => ProtectedSqueaksStay
<1>1. TypeOK /\ [Next]_vars
        => [\A s \in Stored :
              Protected(s) /\ s \notin Listed
                 => /\ s \notin Listed'
                    /\ s \in Stored' \/ DeleteSqueak(s)]_vars
  BY ProtectionStep
<1> QED BY <1>1, TypeCorrect, PTL DEF Spec, ProtectedSqueaksStay
-----------------------------------------------------------------------------
(* The limits.  A thread between its count and its insert holds a promise  *)
(* of a free place that the table knows nothing about: the invariant       *)
(* counts the rows and the promises together.                              *)

Past(labels) == {t \in Caller : pc[t] \in labels}
Counted == Past({"count_key_block", "insert"})

LimitInv ==
    /\ TypeOK
    /\ IsFiniteSet(Stored)
    /\ Cardinality(Stored) + Cardinality(Counted)
          <= MaxSqueaks + Cardinality(Caller) - 1

\* Deletions, returns and all that is not an insert or a passed count.
LEMMA LimitKept ==
    ASSUME LimitInv, TypeOK', Stored' \subseteq Stored, Counted' \subseteq Counted
    PROVE  LimitInv'
<1>1. IsFiniteSet(Counted) /\ IsFiniteSet(Counted')
  BY ThreadAssumption, FS_Subset DEF Counted, Past
<1>2. /\ IsFiniteSet(Stored')
      /\ Cardinality(Stored') <= Cardinality(Stored)
      /\ Cardinality(Counted') <= Cardinality(Counted)
  BY <1>1, FS_Subset DEF LimitInv
<1>3. /\ Cardinality(Stored) \in Nat /\ Cardinality(Stored') \in Nat
      /\ Cardinality(Counted) \in Nat /\ Cardinality(Counted') \in Nat
      /\ Cardinality(Caller) \in Nat
  BY <1>1, <1>2, FS_CardinalityType, ThreadAssumption DEF LimitInv
<1> QED BY <1>2, <1>3, LimitAssumption DEF LimitInv

LEMMA LimitStep ==
    ASSUME LimitInv, [Next]_vars
    PROVE  LimitInv'
<1> USE DEF LimitInv
<1>t. TypeOK'
  BY TypeStep
<1>c. /\ IsFiniteSet(Caller) /\ IsFiniteSet(Counted)
      /\ Cardinality(Caller) \in Nat /\ Cardinality(Counted) \in Nat
      /\ Cardinality(Stored) \in Nat
  BY ThreadAssumption, FS_Subset, FS_CardinalityType DEF Counted, Past
<1>1. ASSUME NEW t \in Caller, CountSqueaks(t), Cardinality(Stored) < MaxSqueaks
      PROVE  LimitInv'
  <2>1. UNCHANGED squeaks
    BY <1>1 DEF CountSqueaks
  <2>2. Counted' \in SUBSET Caller
    BY DEF Counted, Past
  <2>3. Cardinality(Counted') <= Cardinality(Caller) /\ IsFiniteSet(Counted')
    BY <1>c, <2>2, FS_Subset
  <2>4. Cardinality(Counted') \in Nat
    BY <2>3, FS_CardinalityType
  <2>5. Cardinality(Stored) + Cardinality(Counted')
           <= MaxSqueaks + Cardinality(Caller) - 1
    BY <1>1, <1>c, <2>3, <2>4, LimitAssumption
  <2> QED BY <1>t, <2>1, <2>5 DEF Stored
<1>2. ASSUME NEW t \in Caller, InsertSqueak(t), local[t].squeak \notin Stored
      PROVE  LimitInv'
  <2>1. Stored' = Stored \cup {local[t].squeak}
    BY <1>2 DEF InsertSqueak, WithNew, Stored
  <2>2. IsFiniteSet(Stored') /\ Cardinality(Stored') = Cardinality(Stored) + 1
    BY <1>2, <2>1, FS_AddElement
  <2>3. t \in Counted /\ Counted' = Counted \ {t}
    BY <1>2 DEF InsertSqueak, Goto, Counted, Past, TypeOK, Thread
  <2>4. Cardinality(Counted') = Cardinality(Counted) - 1
    BY <1>c, <2>3, FS_RemoveElement
  <2> QED BY <1>t, <1>c, <2>2, <2>4, LimitAssumption
<1>3. CASE Stored' \subseteq Stored /\ Counted' \subseteq Counted
  BY <1>3, <1>t, LimitKept
<1>4. \/ \E t \in Caller : CountSqueaks(t) /\ Cardinality(Stored) < MaxSqueaks
      \/ \E t \in Caller : InsertSqueak(t) /\ local[t].squeak \notin Stored
      \/ Stored' \subseteq Stored /\ Counted' \subseteq Counted
  <2>1. ASSUME NEW t \in Caller, Request(t) \/ Step(t) \/ ListenerRaises(t),
               ~(CountSqueaks(t) /\ Cardinality(Stored) < MaxSqueaks),
               ~(InsertSqueak(t) /\ local[t].squeak \notin Stored)
        PROVE  Stored' \subseteq Stored /\ Counted' \subseteq Counted
    <3>1. CASE Request(t)
      BY <3>1 DEF Request, MakeSqueak, DownloadSqueak, DownloadSecretKey,
         PayForSecretKey, DecryptPrivateSqueak, Call, Counted, Past, TypeOK,
         Thread, Stored
    <3>2. CASE ListenerRaises(t)
      BY <3>2 DEF ListenerRaises, Return, Counted, Past, TypeOK, Thread, Stored
    <3>3. CASE CountSqueaks(t)
      <4>1. Return(t) /\ UNCHANGED squeaks
        BY <2>1, <3>3 DEF CountSqueaks
      <4> QED BY <4>1 DEF Return, Counted, Past, TypeOK, Thread, Stored
    <3>4. CASE CountKeyBlock(t)
      BY <3>4 DEF CountKeyBlock, Goto, Return, Counted, Past, TypeOK, Thread, Stored
    <3>5. CASE InsertSqueak(t)
      <4>1. Return(t) /\ UNCHANGED squeaks
        BY <2>1, <3>5 DEF InsertSqueak
      <4> QED BY <4>1 DEF Return, Counted, Past, TypeOK, Thread, Stored
    <3>6. CASE SetSecretKey(t) \/ SetContent(t)
      BY <3>6 DEF SetSecretKey, SetContent, WithKey, WithContent, Goto, Return,
                  Counted, Past, TypeOK, Thread, Stored
    <3>7. CASE NotifySqueak(t) \/ CheckSecretKey(t) \/ NotifySecretKey(t)
               \/ UnlockGetSqueak(t) \/ Decrypt(t)
      BY <3>7 DEF NotifySqueak, CheckSecretKey, NotifySecretKey, UnlockGetSqueak,
                  Decrypt, Goto, Return, Counted, Past, TypeOK, Thread, Stored
    <3>8. CASE UnlockGetKey(t)
      BY <3>8 DEF UnlockGetKey, Return, Counted, Past, TypeOK, Thread, Stored
    <3> QED BY <2>1, <3>1, <3>2, <3>3, <3>4, <3>5, <3>6, <3>7, <3>8 DEF Step
  <2>2. ASSUME NEW t \in Worker, Retention(t)
        PROVE  Stored' \subseteq Stored /\ Counted' \subseteq Counted
    BY <2>2, ThreadAssumption DEF Retention, ListOldSqueaks, DeleteOldSqueak,
       Without, Counted, Past, TypeOK, Thread, Stored
  <2>3. CASE Statement
    BY <2>3 DEF Statement, LikeSqueak, UnlikeSqueak, DeleteSqueak, Age,
       ImportSigningProfile, DeleteProfile, WithLiked, Without, Counted, Past, Stored
  <2>4. CASE Restart \/ UNCHANGED vars
    BY <2>4 DEF Restart, vars, Counted, Past, Stored, Thread
  <2> QED BY <2>1, <2>2, <2>3, <2>4 DEF Next
<1> QED BY <1>1, <1>2, <1>3, <1>4

\* The table never holds more than MaxSqueaks squeaks plus one for each
\* calling thread but one: the overshoot of the unlocked check is bounded by
\* the threads, not by the number of downloads.
THEOREM LimitHolds == Spec => []SqueakLimit
<1>1. Init => LimitInv
  <2> SUFFICES ASSUME Init PROVE LimitInv
    OBVIOUS
  <2>1. TypeOK
    BY DEF Init, TypeOK, Stored, Row, NewRow, Label, Local, NoLocal, Thread
  <2>2. Stored = {} /\ Counted = {}
    BY DEF Init, Stored, Counted, Past, Thread
  <2>3. Cardinality(Caller) \in Nat /\ Cardinality(Caller) # 0
    BY ThreadAssumption, FS_CardinalityType, FS_EmptySet
  <2> QED BY <2>1, <2>2, <2>3, FS_EmptySet, LimitAssumption DEF LimitInv
<1>2. LimitInv /\ [Next]_vars => LimitInv'
  BY LimitStep
<1>3. LimitInv => SqueakLimit
  <2> SUFFICES ASSUME LimitInv PROVE SqueakLimit
    OBVIOUS
  <2>1. IsFiniteSet(Counted)
    BY ThreadAssumption, FS_Subset DEF Counted, Past
  <2>2. Cardinality(Counted) \in Nat /\ Cardinality(Stored) \in Nat
        /\ Cardinality(Caller) \in Nat
    BY <2>1, FS_CardinalityType, ThreadAssumption DEF LimitInv
  <2> QED BY <2>2, LimitAssumption DEF LimitInv, SqueakLimit
<1> QED BY <1>1, <1>2, <1>3, PTL DEF Spec
=============================================================================
