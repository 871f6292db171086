--------------------------- MODULE ProfilesSlice ---------------------------
(***************************************************************************)
(* Profiles in the web frontend: the slice of the store that holds them,   *)
(* the page of a profile, the page that lists the signing and the contact  *)
(* profiles, and the form of a squeak, which offers the signing profiles.  *)
(*                                                                         *)
(* A profile is shown by its public key and changed by its id.  The page   *)
(* takes the id from the one current profile of the store, which is that   *)
(* of the page before until the node has answered.                         *)
(***************************************************************************)
EXTENDS Thunks

CONSTANTS
    PubKey,
    OwnKeys,     \* public keys whose private key can be made or imported here
    Name

\* The id of the n-th profile with a key; ids are never used again.
Id == PubKey \X Nat

Profile ==
    [id : Id, pubkey : PubKey, name : Name, following : BOOLEAN, image : BOOLEAN, private : BOOLEAN]

ASSUME ProfilesAssumption ==
    /\ OwnKeys \subseteq PubKey
    /\ None \notin PubKey \cup Name
    /\ None \notin Id /\ None \notin Profile
    /\ PubKey \cap {"signing", "contact"} = {}

VARIABLES
    profiles,        \* the node: profiles[k] is the profile with that key, or None
    born,            \* the node: how many profiles have been made with that key
    currentProfile,
    signingProfiles,
    contactProfiles,
    summaryForPubkey,
    profileRoute,    \* the page that is open
    profileMount,    \* the act with which the page of a profile was mounted
    exported,        \* the private key that the page displays, as the answer it came with
    awaited          \* fields that do not hold an answer for the page, or the list

profileNode == <<profiles, born>>
profileFields == <<currentProfile, signingProfiles, contactProfiles, summaryForPubkey>>
profilePage == <<profileRoute, profileMount, exported>>
profileVars == <<profileNode, profileFields, profilePage, awaited>>
-----------------------------------------------------------------------------
(* The thunks.                                                             *)

fetchProfile(k) ==
    Read("fetchProfile", k, <<<<"getProfileByPubkey", k>>>>, "currentProfileStatus")

\* A change by the id, then the profile is read again.
Change(thunk, id, request, arg) ==
    Write(thunk, id, <<<<request, arg>>, <<"getProfile", id>>>>, None)

setFollowProfile(id) == Change("setFollowProfile", id, "setProfileFollowing", <<id, TRUE>>)

setUnfollowProfile(id) == Change("setUnfollowProfile", id, "setProfileFollowing", <<id, FALSE>>)

setRenameProfile(id, name) == Change("setRenameProfile", id, "renameProfile", <<id, name>>)

setProfileImage(id) == Change("setProfileImage", id, "changeProfileImage", id)

setDeleteProfile(id) == Write("setDeleteProfile", id, <<<<"deleteProfile", id>>>>, None)

fetchSigningProfiles ==
    Read("fetchSigningProfiles", None, <<<<"getSigningProfiles", None>>>>, "signingProfilesStatus")

fetchContactProfiles ==
    Read("fetchContactProfiles", None, <<<<"getContactProfiles", None>>>>, "contactProfilesStatus")

\* The id of a profile that was made is in the reply: getProfile asks for that.
Create(thunk, from, request, arg, status) ==
    Write(thunk, from, <<<<request, arg>>, <<"getProfile", None>>>>, status)

setCreateContactProfile(from, name, k) ==
    Create("setCreateContactProfile", from, "createContactProfile", <<name, k>>,
           "createContactProfileStatus")

setCreateSigningProfile(name) ==
    Create("setCreateSigningProfile", None, "createSigningProfile", name,
           "createSigningProfileStatus")

setImportSigningProfile(name, k) ==
    Create("setImportSigningProfile", None, "importSigningProfile", <<name, k>>,
           "importSigningProfileStatus")

getProfilePrivateKey(id, page, sure) ==
    Read("getProfilePrivateKey", [page |-> page, sure |-> sure], <<<<"getPrivateKey", id>>>>,
         "exportPrivateKeyStatus")

fetchPaymentSummaryForPubkey(k) ==
    Read("fetchPaymentSummaryForPubkey", k, <<<<"getPaymentSummaryForPubkey", k>>>>, None)
-----------------------------------------------------------------------------
(* The node.                                                               *)

Saved == {k \in PubKey : profiles[k] # None}

SigningOnes == {profiles[k] : k \in {h \in Saved : profiles[h].private}}
ContactOnes == {profiles[k] : k \in {h \in Saved : ~profiles[h].private}}

NameTaken(name) == \E k \in Saved : profiles[k].name = name

\* The profile that has the id, or None.
ById(id) ==
    IF id[1] \in Saved /\ profiles[id[1]].id = id THEN profiles[id[1]] ELSE None

\* To change a profile that is gone changes nothing.
Set(id, p) == profiles' = IF ById(id) = None THEN profiles ELSE [profiles EXCEPT ![id[1]] = p]

getProfileByPubkey(c) ==
    /\ At(c, "getProfileByPubkey")
    /\ Answer(c, profiles[Argument(c)])
    /\ UNCHANGED profileNode

\* For a profile that was just made: without one there is no key to return.
getProfile(c) ==
    /\ At(c, "getProfile")
    /\ IF Argument(c) # None THEN Answer(c, ById(Argument(c)))
       ELSE IF ById(c.reply) = None THEN Refuse(c)
       ELSE Answer(c, ById(c.reply).pubkey)
    /\ UNCHANGED profileNode

getSigningProfiles(c) ==
    /\ At(c, "getSigningProfiles")
    /\ Answer(c, SigningOnes)
    /\ UNCHANGED profileNode

getContactProfiles(c) ==
    /\ At(c, "getContactProfiles")
    /\ Answer(c, ContactOnes)
    /\ UNCHANGED profileNode

setProfileFollowing(c) ==
    /\ At(c, "setProfileFollowing")
    /\ LET id == Argument(c)[1]
       IN  Set(id, [ById(id) EXCEPT !.following = Argument(c)[2]])
    /\ Answer(c, None)
    /\ UNCHANGED born

renameProfile(c) ==
    /\ At(c, "renameProfile")
    /\ LET id == Argument(c)[1]
           name == Argument(c)[2]
       IN  IF ById(id) # None /\ ById(id).name # name /\ NameTaken(name)
           THEN Refuse(c) /\ UNCHANGED profiles
           ELSE Set(id, [ById(id) EXCEPT !.name = name]) /\ Answer(c, None)
    /\ UNCHANGED born

changeProfileImage(c) ==
    /\ At(c, "changeProfileImage")
    /\ Set(Argument(c), [ById(Argument(c)) EXCEPT !.image = TRUE])
    /\ Answer(c, None)
    /\ UNCHANGED born

deleteProfile(c) ==
    /\ At(c, "deleteProfile")
    /\ Set(Argument(c), None)
    /\ Answer(c, None)
    /\ UNCHANGED born

\* Keys and names are unique; those one can sign with are followed at once.
Make(c, k, name, private) ==
    IF k \in Saved \/ NameTaken(name) THEN Refuse(c) /\ UNCHANGED profileNode ELSE
    LET id == <<k, born[k] + 1>>
    IN  /\ born' = [born EXCEPT ![k] = @ + 1]
        /\ profiles' = [profiles EXCEPT ![k] =
                [id |-> id, pubkey |-> k, name |-> name, following |-> private,
                 image |-> FALSE, private |-> private]]
        /\ Answer(c, id)

createContactProfile(c) ==
    /\ At(c, "createContactProfile")
    /\ Make(c, Argument(c)[2], Argument(c)[1], FALSE)

\* The key is a new one.
createSigningProfile(c) ==
    /\ At(c, "createSigningProfile")
    /\ \E k \in {h \in OwnKeys : born[h] = 0} : Make(c, k, Argument(c), TRUE)

importSigningProfile(c) ==
    /\ At(c, "importSigningProfile")
    /\ Make(c, Argument(c)[2], Argument(c)[1], TRUE)

\* The answer is the key of that profile.
getPrivateKey(c) ==
    /\ At(c, "getPrivateKey")
    /\ LET p == ById(Argument(c))
       IN  IF p = None \/ ~p.private THEN Refuse(c) ELSE Answer(c, p.pubkey)
    /\ UNCHANGED profileNode

\* What is paid for the squeaks of k does not change here.
getPaymentSummaryForPubkey(c) ==
    /\ At(c, "getPaymentSummaryForPubkey")
    /\ Answer(c, Argument(c))
    /\ UNCHANGED profileNode

ProfileThunks ==
    {"fetchProfile", "setFollowProfile", "setUnfollowProfile", "setRenameProfile",
     "setProfileImage", "setDeleteProfile", "fetchSigningProfiles", "fetchContactProfiles",
     "setCreateContactProfile", "setCreateSigningProfile", "setImportSigningProfile",
     "getProfilePrivateKey", "fetchPaymentSummaryForPubkey"}

ProfileServer ==
    /\ \E c \in Of(ProfileThunks) :
        \/ getProfileByPubkey(c) \/ getProfile(c)
        \/ getSigningProfiles(c) \/ getContactProfiles(c)
        \/ setProfileFollowing(c) \/ renameProfile(c) \/ changeProfileImage(c) \/ deleteProfile(c)
        \/ createContactProfile(c) \/ createSigningProfile(c) \/ importSigningProfile(c)
        \/ getPrivateKey(c) \/ getPaymentSummaryForPubkey(c)
    /\ UNCHANGED <<profileFields, profilePage, awaited>>
    /\ UNCHANGED <<view, loading, events, faults, doubt, crashed>>
-----------------------------------------------------------------------------
(* The reducers.                                                           *)

ProfileLists == {"signingProfiles", "contactProfiles"}
ProfileFields == ProfileLists \cup {"currentProfile", "summaryForPubkey"}

ChangesProfile ==
    {"setFollowProfile", "setUnfollowProfile", "setRenameProfile", "setProfileImage"}

\* A field of the page is overwritten, whichever profile it was asked for.
ProfileArrives(c, field) ==
    /\ Replaces(c, field)
    /\ awaited' = IF c.arg = profileRoute THEN awaited \ {field} ELSE awaited \cup {field}

fetchProfileFulfilled(c) ==
    /\ Done(c, "fetchProfile")
    /\ currentProfile' = c.reply
    /\ Settle(c, {}) /\ ProfileArrives(c, "currentProfile")
    /\ UNCHANGED <<signingProfiles, contactProfiles, summaryForPubkey, profilePage>>

fetchPaymentSummaryForPubkeyFulfilled(c) ==
    /\ Done(c, "fetchPaymentSummaryForPubkey")
    /\ summaryForPubkey' = c.reply
    /\ Settle(c, {}) /\ ProfileArrives(c, "summaryForPubkey")
    /\ UNCHANGED <<currentProfile, signingProfiles, contactProfiles, profilePage>>

fetchSigningProfilesFulfilled(c) ==
    /\ Done(c, "fetchSigningProfiles")
    /\ signingProfiles' = c.reply
    /\ Settle(c, {}) /\ Replaces(c, "signingProfiles")
    /\ awaited' = awaited \ {"signingProfiles"}
    /\ UNCHANGED <<currentProfile, contactProfiles, summaryForPubkey, profilePage>>

fetchContactProfilesFulfilled(c) ==
    /\ Done(c, "fetchContactProfiles")
    /\ contactProfiles' = c.reply
    /\ Settle(c, {}) /\ Replaces(c, "contactProfiles")
    /\ awaited' = awaited \ {"contactProfiles"}
    /\ UNCHANGED <<currentProfile, signingProfiles, summaryForPubkey, profilePage>>

updatedProfileInArray(list, p) ==
    {IF q.pubkey = p.pubkey THEN p ELSE q : q \in list}

\* Mutant: the profile becomes the current one whichever page is open.
StoreProfile_AnyCurrent(p) ==
    IF p = None THEN UNCHANGED <<currentProfile, signingProfiles, contactProfiles>> ELSE
    /\ currentProfile' = p
    /\ signingProfiles' = updatedProfileInArray(signingProfiles, p)
    /\ contactProfiles' = updatedProfileInArray(contactProfiles, p)

\* Mutant: the contacts are forgotten.
StoreProfile_NotContacts(p) ==
    IF p = None THEN UNCHANGED <<currentProfile, signingProfiles, contactProfiles>> ELSE
    /\ currentProfile' = IF currentProfile # None /\ currentProfile.pubkey = p.pubkey
                         THEN p ELSE currentProfile
    /\ signingProfiles' = updatedProfileInArray(signingProfiles, p)
    /\ UNCHANGED contactProfiles

\* The new state of a profile replaces it wherever it is.
StoreProfile(p) ==
    IF p = None THEN UNCHANGED <<currentProfile, signingProfiles, contactProfiles>> ELSE
    /\ currentProfile' = IF currentProfile # None /\ currentProfile.pubkey = p.pubkey
                         THEN p ELSE currentProfile
    /\ signingProfiles' = updatedProfileInArray(signingProfiles, p)
    /\ contactProfiles' = updatedProfileInArray(contactProfiles, p)

\* The profile is gone, and there is something to compare it with.
ProfileThrows(c) ==
    c.reply = None /\ (currentProfile # None \/ signingProfiles # {} \/ contactProfiles # {})

\* The cases of follow, unfollow, rename and image are the same.
setProfileFulfilled(c) ==
    /\ \E thunk \in ChangesProfile : Done(c, thunk)
    /\ ~ProfileThrows(c)
    /\ StoreProfile(c.reply)
    /\ Settle(c, {}) /\ Updates(c, ProfileFields)
    /\ UNCHANGED <<summaryForPubkey, profilePage, awaited>>

ProfileReducerThrows(c) ==
    /\ \E thunk \in ChangesProfile : Done(c, thunk)
    /\ ProfileThrows(c)
    /\ Crash(c)
    /\ doubt' = doubt \cup ProfileFields
    /\ UNCHANGED <<profileFields, profilePage, awaited>>

\* The profile stays in the lists.
setDeleteProfileFulfilled(c) ==
    /\ Done(c, "setDeleteProfile")
    /\ currentProfile' = IF currentProfile # None /\ currentProfile.id = c.arg
                         THEN None ELSE currentProfile
    /\ Settle(c, {})
    /\ doubt' = doubt \cup (IF c.crossed THEN ProfileFields ELSE ProfileLists)
    /\ UNCHANGED <<signingProfiles, contactProfiles, summaryForPubkey, profilePage, awaited>>

\* The page that asked for the key displays it, if that is still mounted.
getProfilePrivateKeyFulfilled(c) ==
    /\ Done(c, "getProfilePrivateKey")
    /\ exported' = IF profileRoute \in PubKey /\ c.id >= profileMount
                   THEN [key |-> c.reply, page |-> c.arg.page, sure |-> c.arg.sure]
                   ELSE exported
    /\ Settle(c, {})
    /\ UNCHANGED <<profileFields, profileRoute, profileMount, awaited, doubt>>

\* No reducer of the slice has a case for a rejected thunk.  The page of a
\* profile reads it again after a contact failed too.
ProfileThunkRejected(c) ==
    /\ c.thunk \in ProfileThunks /\ ~(c.thunk = "setCreateContactProfile" /\ c.arg # None)
    /\ Rejected(c, FALSE, ProfileFields)
    /\ UNCHANGED <<profileFields, profilePage, awaited>>

createContactProfileRejected(c) ==
    /\ c.thunk = "setCreateContactProfile" /\ c.arg # None /\ c.reply = Error
    /\ calls' = Begin({fetchProfile(c.arg)}, c.id, calls \ {c})
    /\ loading' = loading \cup Pending({fetchProfile(c.arg)})
    /\ doubt' = doubt \cup ProfileFields
    /\ UNCHANGED <<view, events, faults, crashed, profileFields, profilePage, awaited>>
-----------------------------------------------------------------------------
(* The pages.                                                              *)

ProfileMounted(k) == {fetchProfile(k), fetchPaymentSummaryForPubkey(k)}

\* The page of another profile keeps the component, with the key it displays.
ShowProfile(k) ==
    /\ profileRoute' = k
    /\ IF profileRoute \in PubKey THEN UNCHANGED <<profileMount, exported>>
       ELSE profileMount' = events' /\ exported' = None

OpenProfile(k) ==
    /\ k # profileRoute
    /\ Dispatch(ProfileMounted(k))
    /\ ShowProfile(k)
    /\ awaited' = awaited \cup {"currentProfile", "summaryForPubkey"}
    /\ UNCHANGED <<profileNode, profileFields, doubt>>

\* Another page than that of a profile.
LeaveProfile(page) ==
    /\ page # profileRoute
    /\ profileRoute' = page /\ exported' = None
    /\ UNCHANGED profileMount

OpenSigningProfiles ==
    /\ LeaveProfile("signing")
    /\ Dispatch({fetchSigningProfiles})
    /\ signingProfiles' = {}
    /\ awaited' = awaited \cup {"signingProfiles"}
    /\ UNCHANGED <<profileNode, currentProfile, contactProfiles, summaryForPubkey, doubt>>

OpenContactProfiles ==
    /\ LeaveProfile("contact")
    /\ Dispatch({fetchContactProfiles})
    /\ contactProfiles' = {}
    /\ awaited' = awaited \cup {"contactProfiles"}
    /\ UNCHANGED <<profileNode, currentProfile, signingProfiles, summaryForPubkey, doubt>>

\* The form of a squeak offers the signing profiles, over any page.
OpenMakeSqueak ==
    /\ Dispatch({fetchSigningProfiles})
    /\ UNCHANGED <<profileVars, doubt>>

OnPage == profileRoute \in PubKey /\ currentProfile # None

\* The switch of a profile shows whether it is followed, and asks for the other.
Switch(p) == Dispatch({IF p.following THEN setUnfollowProfile(p.id) ELSE setFollowProfile(p.id)})

ClickFollow ==
    /\ OnPage /\ Switch(currentProfile)
    /\ UNCHANGED <<profileVars, doubt>>

ClickCardFollow(p) ==
    /\ Switch(p)
    /\ UNCHANGED <<profileVars, doubt>>

ProfileCards ==
    CASE profileRoute = "signing" -> signingProfiles
      [] profileRoute = "contact" -> contactProfiles
      [] OTHER -> {}

editProfile(name) ==
    /\ OnPage /\ Dispatch({setRenameProfile(currentProfile.id, name)})
    /\ UNCHANGED <<profileVars, doubt>>

changeAvatar ==
    /\ OnPage /\ Dispatch({setProfileImage(currentProfile.id)})
    /\ UNCHANGED <<profileVars, doubt>>

ClickDeleteProfile ==
    /\ OnPage /\ Dispatch({setDeleteProfile(currentProfile.id)})
    /\ UNCHANGED <<profileVars, doubt>>

exportPrivateKey ==
    /\ OnPage /\ currentProfile.private
    /\ Dispatch({getProfilePrivateKey(currentProfile.id, profileRoute,
                                      "currentProfile" \notin awaited)})
    /\ UNCHANGED <<profileVars, doubt>>

\* The page of a key that has no profile offers to make a contact of it.
AddContactProfile(name) ==
    /\ profileRoute \in PubKey /\ currentProfile = None
    /\ Dispatch({setCreateContactProfile(profileRoute, name, profileRoute)})
    /\ UNCHANGED <<profileVars, doubt>>

OnProfiles == profileRoute \in {"signing", "contact"}

createContact(name, k) ==
    /\ OnProfiles /\ Dispatch({setCreateContactProfile(None, name, k)})
    /\ UNCHANGED <<profileVars, doubt>>

createSigning(name) ==
    /\ OnProfiles /\ \E k \in OwnKeys : born[k] = 0
    /\ Dispatch({setCreateSigningProfile(name)})
    /\ UNCHANGED <<profileVars, doubt>>

importSigning(name, k) ==
    /\ OnProfiles /\ Dispatch({setImportSigningProfile(name, k)})
    /\ UNCHANGED <<profileVars, doubt>>

\* The page of a profile reads it again, once it is made.
AddContactProfileFulfilled(c) ==
    /\ Done(c, "setCreateContactProfile") /\ c.arg # None
    /\ Settle(c, {fetchProfile(c.arg)})
    /\ doubt' = doubt \cup {"contactProfiles"}
    /\ UNCHANGED <<profileFields, profilePage, awaited>>

\* The page of the new profile is opened, for one to sign with after the list is
\* read again; when it is open already nothing is fetched for it.
createProfileFulfilled(c) ==
    /\ \/ Done(c, "setCreateContactProfile") /\ c.arg = None
       \/ Done(c, "setCreateSigningProfile") \/ Done(c, "setImportSigningProfile")
    /\ LET list == IF c.thunk = "setCreateContactProfile" THEN {} ELSE {fetchSigningProfiles}
           same == profileRoute = c.reply
       IN  /\ Settle(c, list \cup (IF same THEN {} ELSE ProfileMounted(c.reply)))
           /\ profileRoute' = c.reply
           /\ IF profileRoute \in PubKey THEN UNCHANGED <<profileMount, exported>>
              ELSE profileMount' = events /\ exported' = None
           /\ awaited' = IF same THEN awaited
                         ELSE awaited \cup {"currentProfile", "summaryForPubkey"}
           /\ doubt' = doubt \cup ProfileLists
    /\ UNCHANGED profileFields
-----------------------------------------------------------------------------
ProfilesInit ==
    /\ profiles \in [PubKey -> [id : {<<k, 1>> : k \in PubKey}, pubkey : PubKey, name : Name,
                                following : {FALSE}, image : {FALSE}, private : BOOLEAN]
                               \cup {None}]
    /\ \A k \in Saved :
        /\ profiles[k].id = <<k, 1>> /\ profiles[k].pubkey = k
        /\ profiles[k].private => k \in OwnKeys
    /\ \A h, k \in Saved : profiles[h].name = profiles[k].name => h = k
    /\ born = [k \in PubKey |-> IF k \in Saved THEN 1 ELSE 0]
    /\ currentProfile = None /\ signingProfiles = {} /\ contactProfiles = {}
    /\ summaryForPubkey = None
    /\ profileRoute = None /\ profileMount = 0 /\ exported = None
    /\ awaited = ProfileFields

ProfileUser ==
    \/ \E k \in PubKey : OpenProfile(k)
    \/ OpenSigningProfiles \/ OpenContactProfiles \/ OpenMakeSqueak
    \/ ClickFollow \/ changeAvatar \/ ClickDeleteProfile \/ exportPrivateKey
    \/ \E p \in ProfileCards : ClickCardFollow(p)
    \/ \E name \in Name :
        \/ editProfile(name) \/ AddContactProfile(name) \/ createSigning(name)
        \/ \E k \in PubKey : createContact(name, k)
        \/ \E k \in OwnKeys : importSigning(name, k)

ProfileReply ==
    /\ \E c \in calls :
        \/ fetchProfileFulfilled(c) \/ fetchPaymentSummaryForPubkeyFulfilled(c)
        \/ fetchSigningProfilesFulfilled(c) \/ fetchContactProfilesFulfilled(c)
        \/ setProfileFulfilled(c) \/ setDeleteProfileFulfilled(c)
        \/ getProfilePrivateKeyFulfilled(c) \/ ProfileReducerThrows(c)
        \/ AddContactProfileFulfilled(c) \/ createProfileFulfilled(c)
        \/ createContactProfileRejected(c) \/ ProfileThunkRejected(c)
    /\ UNCHANGED profileNode
-----------------------------------------------------------------------------
ProfilesTypeOK ==
    /\ profiles \in [PubKey -> Profile \cup {None}]
    /\ born \in [PubKey -> Nat]
    /\ currentProfile \in Profile \cup {None}
    /\ signingProfiles \subseteq Profile /\ contactProfiles \subseteq Profile
    /\ summaryForPubkey \in PubKey \cup {None}
    /\ profileRoute \in PubKey \cup {"signing", "contact", None}
    /\ profileMount \in Nat
    /\ exported \in [key : PubKey, page : PubKey, sure : BOOLEAN] \cup {None}
    /\ awaited \subseteq ProfileFields

\* Once nothing is under way, the page of a key shows the profile the node has
\* for it, and the lists are the profiles one can sign with and the others, but
\* for what overlapping or failed calls, or a deletion, may have left stale.
QuietProfilesTrue ==
    calls = {} =>
        \A field \in ProfileFields \ (awaited \cup doubt) :
            CASE field = "currentProfile" ->
                    profileRoute \in PubKey => currentProfile = profiles[profileRoute]
              [] field = "signingProfiles" -> signingProfiles = SigningOnes
              [] field = "contactProfiles" -> contactProfiles = ContactOnes
              [] OTHER -> TRUE

\* Whatever is changed on cards and on other pages meanwhile, the page of a key
\* that has had its answer never shows, changes or deletes another profile, and
\* a private key exported on it is never another profile's.
ProfilePageShowsItsProfile ==
    /\ profileRoute \in PubKey /\ currentProfile # None =>
            "currentProfile" \in awaited \/ currentProfile.pubkey = profileRoute
    /\ profileRoute \in PubKey => "summaryForPubkey" \in awaited \/ summaryForPubkey = profileRoute
    /\ exported = None \/ ~exported.sure \/ exported.key = exported.page
=============================================================================
