---------------------------- MODULE AdminFrontend ----------------------------
(***************************************************************************)
(* The web frontend and its node: all slices of the redux store, with the  *)
(* pages that dispatch their thunks.                                       *)
(*                                                                         *)
(* The slices share the calls that are under way and nothing else.  A      *)
(* behaviour follows the thunks of one view; the pages of the slices that  *)
(* have none of them are not used in it.                                   *)
(***************************************************************************)
EXTENDS SqueaksSlice, ProfilesSlice, PeersSlice, PaymentsSlice, SettingsSlice

CONSTANT StoredFirst  \* bound: StoredFirst[v] has the sets of squeaks that may be stored
                      \* when v begins

\* A logout loads the frontend again; it is followed for the settings alone.
ASSUME LogoutAssumption ==
    \A v \in DOMAIN Views : "setLogout" \in v => v \subseteq SettingsThunks

vars == <<thunkVars, squeakVars, profileVars, peerVars, paymentVars, settingsVars>>

butSqueaks == <<profileVars, peerVars, paymentVars, settingsVars>>
butProfiles == <<squeakVars, peerVars, paymentVars, settingsVars>>
butPeers == <<squeakVars, profileVars, paymentVars, settingsVars>>
butPayments == <<squeakVars, profileVars, peerVars, settingsVars>>
butSettings == <<squeakVars, profileVars, peerVars, paymentVars>>

Follows(thunks) == view \cap thunks # {}

Init ==
    /\ ThunksInit
    /\ SqueaksInit /\ ProfilesInit /\ PeersInit /\ PaymentsInit /\ SettingsInit
    /\ Stored \in StoredFirst[view]
    /\ Follows(ProfileThunks) \/ Saved = {}
    /\ Follows(PeerThunks) \/ SavedPeers = {}

Squeaks == Follows(SqueakThunks) /\ (SqueakUser \/ SqueakServer \/ SqueakReply)
Profiles == Follows(ProfileThunks) /\ (ProfileUser \/ ProfileServer \/ ProfileReply)
Peers == Follows(PeerThunks) /\ (PeerUser \/ PeerServer \/ PeerReply)
Payments ==
    Follows(PaymentThunks) /\ (PaymentUser \/ PaymentRecorded \/ PaymentServer \/ PaymentReply)
Settings == Follows(SettingsThunks) /\ (SettingsUser \/ SettingsServer \/ SettingsReply)

Lost ==
    /\ \E c \in calls : Lose(c)
    /\ UNCHANGED <<squeakVars, butSqueaks>>

Next ==
    \/ Squeaks /\ UNCHANGED butSqueaks
    \/ Profiles /\ UNCHANGED butProfiles
    \/ Peers /\ UNCHANGED butPeers
    \/ Payments /\ UNCHANGED butPayments
    \/ Settings /\ UNCHANGED butSettings
    \/ Lost

Spec == Init /\ [][Next]_vars
-----------------------------------------------------------------------------
\* The slices and the pages hold what they can hold.
TypeOK ==
    /\ ThunksTypeOK
    /\ SqueaksTypeOK /\ ProfilesTypeOK /\ PeersTypeOK /\ PaymentsTypeOK /\ SettingsTypeOK
=============================================================================
