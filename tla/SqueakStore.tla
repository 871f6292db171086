---------------------------- MODULE SqueakStore ----------------------------
(***************************************************************************)
(* The squeaks table of a squeaknode and the operations of SqueakStore     *)
(* that read and write it: make_squeak, save_squeak, save_secret_key,      *)
(* unlock_squeak, like/unlike, delete_squeak, delete_old_squeaks.          *)
(*                                                                         *)
(* Every SQL statement of the code runs on a connection of its own and     *)
(* commits by itself, and the store holds no lock: each statement is one   *)
(* step, and the steps of the threads of the node (admin requests, peer    *)
(* requests, downloads, the Twitter forwarder, the retention worker)       *)
(* interleave.                                                             *)
(***************************************************************************)
EXTENDS Integers, FiniteSets

CONSTANTS
    Caller,          \* threads that run the requests of users and of peers
    Worker,          \* threads of the periodic retention worker
    Squeak,          \* squeaks, named by their hash
    Profile,         \* public keys of authors and recipients
    BlockHeight,     \* block heights
    SecretKey,       \* secret keys a peer or a seller may hand out
    None,            \* SQL NULL, Python None
    Author,          \* Author[s]: the public key that signed s
    Recipient,       \* Recipient[s]: to whom s is private, None if public
    Height,          \* Height[s]: the block height in s
    KeyOf,           \* KeyOf[s]: the one secret key that opens s
    MaxSqueaks,      \* node.max_squeaks
    MaxPerKeyBlock,  \* node.max_squeaks_per_public_key_per_block
    Requests,        \* the kinds of request that are made
    Faults           \* the faults that happen

RequestKind == {"make", "download", "key", "decrypt", "like", "delete",
                "retention", "profile"}
FaultKind == {"listener", "restart"}

ASSUME ThreadAssumption ==
    /\ IsFiniteSet(Caller) /\ Caller # {}
    /\ Caller \cap Worker = {}

ASSUME SqueakAssumption ==
    /\ None \notin Squeak \cup Profile \cup SecretKey
    /\ Author \in [Squeak -> Profile]
    /\ Recipient \in [Squeak -> Profile \cup {None}]
    /\ Height \in [Squeak -> BlockHeight]
    /\ KeyOf \in [Squeak -> SecretKey]

ASSUME LimitAssumption == MaxSqueaks \in Nat /\ MaxPerKeyBlock \in Nat

ASSUME EnvironmentAssumption ==
    Requests \subseteq RequestKind /\ Faults \subseteq FaultKind

VARIABLES
    squeaks,    \* the squeaks table: hash -> row
    signing,    \* profiles of the profiles table that have a private key
    published,  \* squeaks that exist somewhere
    pc,         \* what each thread does next
    local       \* what each thread holds in its local variables

vars == <<squeaks, signing, published, pc, local>>
-----------------------------------------------------------------------------
Thread == Caller \cup Worker

\* content holds the key the text was decrypted with: the text is right when
\* that key is the squeak's own.
Row == [secret_key : SecretKey \cup {None},
        content    : SecretKey \cup {None},
        liked      : BOOLEAN,
        aged       : BOOLEAN]

NewRow == [secret_key |-> None, content |-> None,
           liked |-> FALSE, aged |-> FALSE]

Label == {"idle", "count_squeaks", "count_key_block", "insert",
          "notify_squeak", "get_squeak", "set_key", "notify_key",
          "unlock_squeak", "unlock_key", "decrypt", "set_content",
          "delete_old"}

Local == [squeak     : Squeak \cup {None},
          secret_key : SecretKey \cup {None},
          profile    : Profile \cup {None},
          todo       : SUBSET Squeak]

NoLocal == [squeak |-> None, secret_key |-> None, profile |-> None,
            todo |-> {}]

Stored == DOMAIN squeaks
Public(s) == Recipient[s] = None
Liked(s) == s \in Stored /\ squeaks[s].liked
KeyBlock(s) == {r \in Squeak : Author[r] = Author[s] /\ Height[r] = Height[s]}

\* Mutant: the query without its liked condition.
Expired_EvenLiked ==
    {s \in Stored : squeaks[s].aged /\ Author[s] \notin signing}

\* What retention may delete: old, not liked, not written by the user.
Expired == {s \in Stored : /\ squeaks[s].aged
                           /\ ~squeaks[s].liked
                           /\ Author[s] \notin signing}

Listed == UNION {local[t].todo : t \in Worker}

TypeOK ==
    /\ Stored \subseteq published
    /\ squeaks \in [Stored -> Row]
    /\ signing \subseteq Profile
    /\ published \subseteq Squeak
    /\ pc \in [Thread -> Label]
    /\ local \in [Thread -> Local]
    /\ \A t \in Thread :
          pc[t] \notin {"idle", "delete_old"} => local[t].squeak \in published
-----------------------------------------------------------------------------
\* The UPDATE and DELETE statements: no row, no effect.
WithKey(s, k) ==
    [r \in Stored |-> IF r = s THEN [squeaks[r] EXCEPT !.secret_key = k]
                               ELSE squeaks[r]]
WithContent(s, c) ==
    [r \in Stored |-> IF r = s THEN [squeaks[r] EXCEPT !.content = c]
                               ELSE squeaks[r]]
WithLiked(s, b) ==
    [r \in Stored |-> IF r = s THEN [squeaks[r] EXCEPT !.liked = b]
                               ELSE squeaks[r]]
Without(s) == [r \in Stored \ {s} |-> squeaks[r]]
WithNew(s) == [r \in Stored \cup {s} |-> IF r = s THEN NewRow ELSE squeaks[r]]

Goto(t, label) == pc' = [pc EXCEPT ![t] = label] /\ UNCHANGED local

\* The operation is over: it returned, or an exception left it.
Return(t) == /\ pc' = [pc EXCEPT ![t] = "idle"]
             /\ local' = [local EXCEPT ![t] = NoLocal]

Call(t, label, s, k, p) ==
    /\ pc[t] = "idle"
    /\ pc' = [pc EXCEPT ![t] = label]
    /\ local' = [local EXCEPT ![t] = [squeak |-> s, secret_key |-> k,
                                      profile |-> p, todo |-> {}]]
-----------------------------------------------------------------------------
\* Requests.

\* A fresh squeak of a signing profile: a hash nobody has seen.
MakeSqueak(t, s) ==
    /\ "make" \in Requests
    /\ Author[s] \in signing
    /\ s \notin published
    /\ published' = published \cup {s}
    /\ Call(t, "count_squeaks", s, KeyOf[s], Author[s])
    /\ UNCHANGED <<squeaks, signing>>

DownloadSqueak(t, s) ==
    /\ "download" \in Requests
    /\ s \notin Stored
    /\ published' = published \cup {s}
    /\ Call(t, "count_squeaks", s, None, None)
    /\ UNCHANGED <<squeaks, signing>>

\* A peer shares the key for free, if the squeak still lacks one ...
DownloadSecretKey(t, s, k) ==
    /\ "key" \in Requests
    /\ s \in Stored /\ squeaks[s].secret_key = None
    /\ Call(t, "get_squeak", s, k, None)
    /\ UNCHANGED <<squeaks, signing, published>>

\* ... or the user paid for it, whatever became of the squeak meanwhile.
PayForSecretKey(t, s, k) ==
    /\ "key" \in Requests
    /\ s \in published
    /\ Call(t, "get_squeak", s, k, None)
    /\ UNCHANGED <<squeaks, signing, published>>

DecryptPrivateSqueak(t, s, p) ==
    /\ "decrypt" \in Requests
    /\ s \in published /\ ~Public(s)
    /\ Call(t, "unlock_squeak", s, None, p)
    /\ UNCHANGED <<squeaks, signing, published>>

LikeSqueak(s) ==
    /\ "like" \in Requests
    /\ s \in Stored
    /\ squeaks' = WithLiked(s, TRUE)
    /\ UNCHANGED <<signing, published, pc, local>>

UnlikeSqueak(s) ==
    /\ "like" \in Requests
    /\ s \in Stored
    /\ squeaks' = WithLiked(s, FALSE)
    /\ UNCHANGED <<signing, published, pc, local>>

DeleteSqueak(s) ==
    /\ "delete" \in Requests
    /\ s \in Stored
    /\ squeaks' = Without(s)
    /\ UNCHANGED <<signing, published, pc, local>>

ImportSigningProfile(p) ==
    /\ "profile" \in Requests
    /\ p \notin signing
    /\ signing' = signing \cup {p}
    /\ UNCHANGED <<squeaks, published, pc, local>>

DeleteProfile(p) ==
    /\ "profile" \in Requests
    /\ p \in signing
    /\ signing' = signing \ {p}
    /\ UNCHANGED <<squeaks, published, pc, local>>
-----------------------------------------------------------------------------
\* save_squeak.  The two counts and the insert are three statements.

\* Mutant: the limit compared with > instead of >=.
CountSqueaks_OffByOne(t) ==
    /\ pc[t] = "count_squeaks"
    /\ \/ Cardinality(Stored) <= MaxSqueaks /\ Goto(t, "count_key_block")
       \/ Cardinality(Stored) > MaxSqueaks /\ Return(t)
    /\ UNCHANGED <<squeaks, signing, published>>

CountSqueaks(t) ==
    /\ pc[t] = "count_squeaks"
    /\ \/ Cardinality(Stored) < MaxSqueaks /\ Goto(t, "count_key_block")
       \/ Cardinality(Stored) >= MaxSqueaks /\ Return(t)
    /\ UNCHANGED <<squeaks, signing, published>>

CountKeyBlock(t) ==
    /\ pc[t] = "count_key_block"
    /\ LET n == Cardinality(Stored \cap KeyBlock(local[t].squeak))
       IN  \/ n < MaxPerKeyBlock /\ Goto(t, "insert")
           \/ n >= MaxPerKeyBlock /\ Return(t)
    /\ UNCHANGED <<squeaks, signing, published>>

\* Mutant: INSERT OR REPLACE.
InsertSqueak_Replace(t) ==
    /\ pc[t] = "insert"
    /\ squeaks' = WithNew(local[t].squeak)
    /\ Goto(t, "notify_squeak")
    /\ UNCHANGED <<signing, published>>

\* Mutant: make_squeak goes on though insert_squeak gave None.
InsertSqueak_NoneGoesOn(t) ==
    /\ pc[t] = "insert"
    /\ LET s == local[t].squeak
       IN  \/ s \notin Stored /\ squeaks' = WithNew(s) /\ Goto(t, "notify_squeak")
           \/ /\ s \in Stored
              /\ pc' = [pc EXCEPT ![t] = "get_squeak"]
              /\ local' = [local EXCEPT ![t].squeak = None]
              /\ UNCHANGED squeaks
    /\ UNCHANGED <<signing, published>>

\* The primary key refuses a second row: insert_squeak then gives None,
\* which ends a download and makes make_squeak raise.
InsertSqueak(t) ==
    /\ pc[t] = "insert"
    /\ LET s == local[t].squeak
       IN  \/ s \notin Stored /\ squeaks' = WithNew(s) /\ Goto(t, "notify_squeak")
           \/ s \in Stored /\ Return(t) /\ UNCHANGED squeaks
    /\ UNCHANGED <<signing, published>>

\* make_squeak goes on to save the key it made; a download is done.
NotifySqueak(t) ==
    /\ pc[t] = "notify_squeak"
    /\ \/ local[t].profile # None /\ Goto(t, "get_squeak")
       \/ local[t].profile = None /\ Return(t)
    /\ UNCHANGED <<squeaks, signing, published>>
-----------------------------------------------------------------------------
\* save_secret_key.

\* Mutant: no CheckSqueakSecretKey.
CheckSecretKey_Unchecked(t) ==
    /\ pc[t] = "get_squeak"
    /\ \/ local[t].squeak \in Stored /\ Goto(t, "set_key")
       \/ local[t].squeak \notin Stored /\ Return(t)
    /\ UNCHANGED <<squeaks, signing, published>>

CheckSecretKey(t) ==
    /\ pc[t] = "get_squeak"
    /\ LET s == local[t].squeak
           valid == s \in Stored /\ local[t].secret_key = KeyOf[s]
       IN  \/ valid /\ Goto(t, "set_key")
           \/ ~valid /\ Return(t)
    /\ UNCHANGED <<squeaks, signing, published>>

SetSecretKey(t) ==
    /\ pc[t] = "set_key"
    /\ squeaks' = WithKey(local[t].squeak, local[t].secret_key)
    /\ Goto(t, "notify_key")
    /\ UNCHANGED <<signing, published>>

\* Mutant: the test on is_private_message inverted.
NotifySecretKey_Inverted(t) ==
    /\ pc[t] = "notify_key"
    /\ \/ ~Public(local[t].squeak) /\ Goto(t, "unlock_squeak")
       \/ Public(local[t].squeak) /\ Return(t)
    /\ UNCHANGED <<squeaks, signing, published>>

\* A public squeak is unlocked at once, a private one by its maker only.
NotifySecretKey(t) ==
    /\ pc[t] = "notify_key"
    /\ LET unlocks == Public(local[t].squeak) \/ local[t].profile # None
       IN  \/ unlocks /\ Goto(t, "unlock_squeak")
           \/ ~unlocks /\ Return(t)
    /\ UNCHANGED <<squeaks, signing, published>>
-----------------------------------------------------------------------------
\* unlock_squeak.  It reads the squeak, the key and the profile, decrypts,
\* and writes the content to whatever row has the hash by then.

UnlockGetSqueak(t) ==
    /\ pc[t] = "unlock_squeak"
    /\ \/ local[t].squeak \in Stored /\ Goto(t, "unlock_key")
       \/ local[t].squeak \notin Stored /\ Return(t)
    /\ UNCHANGED <<squeaks, signing, published>>

UnlockGetKey(t) ==
    /\ pc[t] = "unlock_key"
    /\ LET s == local[t].squeak
           found == s \in Stored /\ squeaks[s].secret_key # None
       IN  \/ /\ found
              /\ local' = [local EXCEPT ![t].secret_key = squeaks[s].secret_key]
              /\ pc' = [pc EXCEPT ![t] = "decrypt"]
           \/ ~found /\ Return(t)
    /\ UNCHANGED <<squeaks, signing, published>>

\* A private squeak opens with the private key of its author or recipient.
Decrypt(t) ==
    /\ pc[t] = "decrypt"
    /\ LET s == local[t].squeak
           opens == \/ Public(s)
                    \/ local[t].profile \in {Author[s], Recipient[s]} \cap signing
       IN  \/ opens /\ Goto(t, "set_content")
           \/ ~opens /\ Return(t)
    /\ UNCHANGED <<squeaks, signing, published>>

SetContent(t) ==
    /\ pc[t] = "set_content"
    /\ squeaks' = WithContent(local[t].squeak, local[t].secret_key)
    /\ Return(t)
    /\ UNCHANGED <<signing, published>>
-----------------------------------------------------------------------------
\* delete_old_squeaks: one SELECT, then one DELETE per squeak it returned.

ListOldSqueaks(t) ==
    /\ "retention" \in Requests
    /\ pc[t] = "idle"
    /\ Expired # {}
    /\ local' = [local EXCEPT ![t] = [NoLocal EXCEPT !.todo = Expired]]
    /\ pc' = [pc EXCEPT ![t] = "delete_old"]
    /\ UNCHANGED <<squeaks, signing, published>>

\* Mutant: the worker never gets out of its loop.
DeleteOldSqueak_Stuck(t, s) ==
    /\ pc[t] = "delete_old"
    /\ s \in local[t].todo
    /\ squeaks' = Without(s)
    /\ local' = [local EXCEPT ![t].todo = @ \ {s}]
    /\ UNCHANGED <<signing, published, pc>>

DeleteOldSqueak(t, s) ==
    /\ pc[t] = "delete_old"
    /\ s \in local[t].todo
    /\ squeaks' = Without(s)
    /\ local' = [local EXCEPT ![t].todo = @ \ {s}]
    /\ pc' = [pc EXCEPT ![t] = IF local[t].todo = {s} THEN "idle" ELSE @]
    /\ UNCHANGED <<signing, published>>

\* Time passes and s gets older than the retention interval.
Age(s) ==
    /\ "retention" \in Requests
    /\ s \in Stored /\ ~squeaks[s].aged
    /\ squeaks' = [squeaks EXCEPT ![s].aged = TRUE]
    /\ UNCHANGED <<signing, published, pc, local>>
-----------------------------------------------------------------------------
\* A listener's callbacks change while handle_new_item walks them.
ListenerRaises(t) ==
    /\ "listener" \in Faults
    /\ pc[t] \in {"notify_squeak", "notify_key"}
    /\ Return(t)
    /\ UNCHANGED <<squeaks, signing, published>>

\* The process dies and starts again: only the database is left.
Restart ==
    /\ "restart" \in Faults
    /\ pc' = [t \in Thread |-> "idle"]
    /\ local' = [t \in Thread |-> NoLocal]
    /\ UNCHANGED <<squeaks, signing, published>>

Init ==
    /\ squeaks = [s \in {} |-> NewRow]
    /\ signing \in SUBSET Profile
    /\ published = {}
    /\ pc = [t \in Thread |-> "idle"]
    /\ local = [t \in Thread |-> NoLocal]

Request(t) ==
    \E s \in Squeak :
        \/ MakeSqueak(t, s)
        \/ DownloadSqueak(t, s)
        \/ \E k \in SecretKey : DownloadSecretKey(t, s, k) \/ PayForSecretKey(t, s, k)
        \/ \E p \in Profile : DecryptPrivateSqueak(t, s, p)

\* What a thread does by itself once it runs an operation.
Step(t) ==
    \/ CountSqueaks(t) \/ CountKeyBlock(t) \/ InsertSqueak(t) \/ NotifySqueak(t)
    \/ CheckSecretKey(t) \/ SetSecretKey(t) \/ NotifySecretKey(t)
    \/ UnlockGetSqueak(t) \/ UnlockGetKey(t) \/ Decrypt(t) \/ SetContent(t)

Retention(t) ==
    \/ ListOldSqueaks(t)
    \/ \E s \in Squeak : DeleteOldSqueak(t, s)

\* Requests of a single statement.
Statement ==
    \/ \E s \in Squeak :
          LikeSqueak(s) \/ UnlikeSqueak(s) \/ DeleteSqueak(s) \/ Age(s)
    \/ \E p \in Profile : ImportSigningProfile(p) \/ DeleteProfile(p)

Next ==
    \/ \E t \in Caller : Request(t) \/ Step(t) \/ ListenerRaises(t)
    \/ \E t \in Worker : Retention(t)
    \/ Statement
    \/ Restart

Spec == Init /\ [][Next]_vars

\* Threads are scheduled, and the timer of the retention worker keeps firing.
Fairness ==
    /\ \A t \in Caller : WF_vars(Step(t))
    /\ \A t \in Worker : WF_vars(Retention(t))

LiveSpec == Spec /\ Fairness
-----------------------------------------------------------------------------
(* Safety.                                                                 *)

\* Whatever threads, deletions and crashes did in between, a stored secret
\* key is the squeak's own and a stored content was decrypted with it, though
\* save_secret_key checks the key and unlock_squeak reads it in statements
\* other than the ones that write (squeak_store.py:150-210).
KeysOpenSqueaks ==
    \A s \in Stored : /\ squeaks[s].secret_key \in {None, KeyOf[s]}
                      /\ squeaks[s].content \in {None, KeyOf[s]}

\* How far the counts of save_squeak can be overshot: each thread can have
\* seen the last free place, so all but one of them come on top of it.
SqueakLimit ==
    Cardinality(Stored) <= MaxSqueaks + Cardinality(Caller) - 1

\* While a row lives, downloads, purchases and repeated unlocks of the same
\* squeak never change or erase the key and the content it already has.
RowsKeepSecrets ==
    [][\A s \in Stored \cap Stored' :
          /\ squeaks[s].secret_key # None
                => squeaks'[s].secret_key = squeaks[s].secret_key
          /\ squeaks[s].content # None
                => squeaks'[s].content = squeaks[s].content]_vars

Protected(s) == Liked(s) \/ Author[s] \in signing

\* A squeak that is liked or the user's own, and on no retention worker's
\* list already, is never listed nor deleted by retention: only the user's
\* own delete_squeak removes it.
ProtectedSqueaksStay ==
    [][\A s \in Stored :
          Protected(s) /\ s \notin Listed
             => /\ s \notin Listed'
                /\ s \in Stored' \/ DeleteSqueak(s)]_vars

(* Liveness.                                                               *)

\* Retention reaches every squeak it may delete: an old, unprotected squeak
\* is deleted, or someone protects it.
OldSqueaksDeleted ==
    \A s \in Squeak : s \in Expired ~> s \notin Expired

\* A public squeak whose key is stored becomes readable, however many threads
\* save it, unlock it and delete it at the same time.
KeyedSqueaksReadable ==
    \A s \in Squeak :
        (s \in Stored /\ Public(s) /\ squeaks[s].secret_key # None)
            ~> (s \notin Stored \/ squeaks[s].content # None)
=============================================================================
