----------------------------- MODULE PeersSlice -----------------------------
(***************************************************************************)
(* Peers in the web frontend: the slice of the store that holds them, the  *)
(* page that lists the saved peers, and the page of one address.           *)
(*                                                                         *)
(* Every call that changes a peer returns the whole list, and sets the one *)
(* current peer of the store too, whichever page it was made from.  The    *)
(* page of an address deletes and switches the current peer, by its id.    *)
(***************************************************************************)
EXTENDS Thunks

CONSTANTS
    Address,
    HostOf       \* HostOf[a]: host and port of a, without the network

PeerEntry == [id : Nat, address : Address, autoconnect : BOOLEAN]

ASSUME PeersAssumption ==
    /\ {None, "peers"} \cap Address = {} /\ DOMAIN HostOf = Address
    /\ None \notin PeerEntry

VARIABLES
    peers,          \* the node: peers[a] is the peer saved with that address, or None
    peersMade,      \* the node: how many peers have been saved
    currentPeer,
    savedPeers,
    peerRoute,      \* the page that is open
    peerAwaited     \* fields that do not hold an answer for the page

peerNode == <<peers, peersMade>>
peerFields == <<currentPeer, savedPeers>>
peerVars == <<peerNode, peerFields, peerRoute, peerAwaited>>
-----------------------------------------------------------------------------
(* The thunks.                                                             *)

fetchPeer(a) == Read("fetchPeer", a, <<<<"getPeer", a>>>>, "currentPeerStatus")

fetchSavedPeers ==
    Read("fetchSavedPeers", None, <<<<"getSavedPeers", None>>>>, "savedPeersStatus")

\* A change, then the list is read again.
ChangePeers(thunk, arg, request, of, status) ==
    Write(thunk, arg, <<<<request, of>>, <<"getSavedPeers", None>>>>, status)

setSavePeer(a) == ChangePeers("setSavePeer", a, "savePeer", a, "savePeerStatus")

setDeletePeer(p) == ChangePeers("setDeletePeer", p.address, "deletePeer", p.id, "deletePeerStatus")

setPeerAutoconnectEnabled(p) ==
    ChangePeers("setPeerAutoconnectEnabled", p, "enableAutoconnectPeer", p.id, None)

setPeerAutoconnectDisabled(p) ==
    ChangePeers("setPeerAutoconnectDisabled", p, "disableAutoconnectPeer", p.id, None)
-----------------------------------------------------------------------------
(* The node.                                                               *)

SavedPeers == {peers[a] : a \in {b \in Address : peers[b] # None}}

\* Mutant: a peer is looked for by the whole address.
WithHost_SameNetwork(a) == {p \in SavedPeers : p.address = a}

\* Host and port are unique; the network is neither part of the key nor looked at.
WithHost(a) == {p \in SavedPeers : HostOf[p.address] = HostOf[a]}

PeerFor(a) == IF WithHost(a) = {} THEN None ELSE CHOOSE p \in WithHost(a) : TRUE

getPeer(c) ==
    /\ At(c, "getPeer")
    /\ Answer(c, PeerFor(Argument(c)))
    /\ UNCHANGED peerNode

getSavedPeers(c) ==
    /\ At(c, "getSavedPeers")
    /\ Answer(c, SavedPeers)
    /\ UNCHANGED peerNode

savePeer(c) ==
    /\ At(c, "savePeer")
    /\ LET a == Argument(c)
       IN  IF WithHost(a) # {} THEN Refuse(c) /\ UNCHANGED peerNode ELSE
           /\ peersMade' = peersMade + 1
           /\ peers' = [peers EXCEPT ![a] =
                    [id |-> peersMade + 1, address |-> a, autoconnect |-> TRUE]]
           /\ Answer(c, None)

\* To change a peer that is gone changes nothing.
deletePeer(c) ==
    /\ At(c, "deletePeer")
    /\ peers' = [a \in Address |->
            IF peers[a] # None /\ peers[a].id = Argument(c) THEN None ELSE peers[a]]
    /\ Answer(c, None)
    /\ UNCHANGED peersMade

SetAutoconnect(id, on) ==
    peers' = [a \in Address |->
        IF peers[a] # None /\ peers[a].id = id THEN [peers[a] EXCEPT !.autoconnect = on] ELSE peers[a]]

enableAutoconnectPeer(c) ==
    /\ At(c, "enableAutoconnectPeer")
    /\ SetAutoconnect(Argument(c), TRUE)
    /\ Answer(c, None)
    /\ UNCHANGED peersMade

disableAutoconnectPeer(c) ==
    /\ At(c, "disableAutoconnectPeer")
    /\ SetAutoconnect(Argument(c), FALSE)
    /\ Answer(c, None)
    /\ UNCHANGED peersMade

PeerThunks ==
    {"fetchPeer", "fetchSavedPeers", "setSavePeer", "setDeletePeer",
     "setPeerAutoconnectEnabled", "setPeerAutoconnectDisabled"}

PeerServer ==
    /\ \E c \in Of(PeerThunks) :
        \/ getPeer(c) \/ getSavedPeers(c) \/ savePeer(c) \/ deletePeer(c)
        \/ enableAutoconnectPeer(c) \/ disableAutoconnectPeer(c)
    /\ UNCHANGED <<peerFields, peerRoute, peerAwaited>>
    /\ UNCHANGED <<view, loading, events, faults, doubt, crashed>>
-----------------------------------------------------------------------------
(* The reducers.                                                           *)

PeerFields == {"currentPeer", "savedPeers"}

OfPage(a) == peerRoute \in Address /\ HostOf[a] = HostOf[peerRoute]

\* Fields are overwritten, whichever page the call, about address a, was made from.
PeerArrives(c, a, fields) ==
    /\ doubt' = IF c.crossed THEN doubt \cup fields ELSE doubt \ fields
    /\ peerAwaited' = (peerAwaited \ fields)
            \cup (IF "currentPeer" \in fields /\ ~OfPage(a) THEN {"currentPeer"} ELSE {})

\* A peer that was shown is changed by its id, which may be gone: the list is
\* overwritten, but what is the current peer then is only as true as it was.
PeerChanged(c, a) ==
    /\ doubt' = IF c.crossed THEN doubt \cup PeerFields
                ELSE (doubt \ {"savedPeers"}) \cup (peerAwaited \ {"savedPeers"})
    /\ peerAwaited' = IF OfPage(a) THEN {} ELSE {"currentPeer"}

fetchPeerFulfilled(c) ==
    /\ Done(c, "fetchPeer")
    /\ currentPeer' = c.reply
    /\ Settle(c, {}) /\ PeerArrives(c, c.arg, {"currentPeer"})
    /\ UNCHANGED <<savedPeers, peerRoute>>

fetchSavedPeersFulfilled(c) ==
    /\ Done(c, "fetchSavedPeers")
    /\ savedPeers' = c.reply
    /\ Settle(c, {})
    /\ doubt' = IF c.crossed THEN doubt \cup {"savedPeers"} ELSE doubt \ {"savedPeers"}
    /\ peerAwaited' = peerAwaited \ {"savedPeers"}
    /\ UNCHANGED <<currentPeer, peerRoute>>

\* Mutant: the first peer of the list.
Find_First(list, a) == IF list = {} THEN None ELSE CHOOSE p \in list : TRUE

\* The peer of the list with the address that was saved, if it is there.
Find(list, a) == IF \E p \in list : p.address = a THEN CHOOSE p \in list : p.address = a ELSE None

\* The peer of the list with the id that was switched, if it is there.
FindId(list, id) == IF \E p \in list : p.id = id THEN CHOOSE p \in list : p.id = id ELSE None

setSavePeerFulfilled(c) ==
    /\ Done(c, "setSavePeer")
    /\ currentPeer' = Find(c.reply, c.arg)
    /\ savedPeers' = c.reply
    /\ Settle(c, {}) /\ PeerArrives(c, c.arg, PeerFields)
    /\ UNCHANGED peerRoute

\* Mutant: the deleted peer stays the current one.
AfterDelete_Kept(p) == p

AfterDelete(p) == None

setDeletePeerFulfilled(c) ==
    /\ Done(c, "setDeletePeer")
    /\ currentPeer' = AfterDelete(currentPeer)
    /\ savedPeers' = c.reply
    /\ Settle(c, {}) /\ PeerChanged(c, c.arg)
    /\ UNCHANGED peerRoute

\* Both cases of the switch are the same.
setPeerAutoconnectFulfilled(c) ==
    /\ Done(c, "setPeerAutoconnectEnabled") \/ Done(c, "setPeerAutoconnectDisabled")
    /\ currentPeer' = FindId(c.reply, c.arg.id)
    /\ savedPeers' = c.reply
    /\ Settle(c, {}) /\ PeerChanged(c, c.arg.address)
    /\ UNCHANGED peerRoute

PeerThunkRejected(c) ==
    /\ c.thunk \in PeerThunks
    /\ Rejected(c, FALSE, PeerFields)
    /\ UNCHANGED <<peerFields, peerRoute, peerAwaited>>
-----------------------------------------------------------------------------
(* The pages.                                                              *)

\* The page of an address is only entered from one that is not of an address.
OpenPeer(a) ==
    /\ peerRoute \notin Address
    /\ Dispatch({fetchPeer(a)})
    /\ peerRoute' = a
    /\ peerAwaited' = peerAwaited \cup {"currentPeer"}
    /\ UNCHANGED <<peerNode, peerFields, doubt>>

OpenPeers ==
    /\ peerRoute # "peers"
    /\ Dispatch({fetchSavedPeers})
    /\ peerRoute' = "peers"
    /\ UNCHANGED <<peerNode, peerFields, peerAwaited, doubt>>

AddPeer(a) ==
    /\ peerRoute = "peers" \/ (peerRoute = a /\ currentPeer = None)
    /\ Dispatch({setSavePeer(a)})
    /\ UNCHANGED <<peerVars, doubt>>

Toggle(p) ==
    Dispatch({IF p.autoconnect THEN setPeerAutoconnectDisabled(p) ELSE setPeerAutoconnectEnabled(p)})

ClickPeerSwitch ==
    /\ peerRoute \in Address /\ currentPeer # None
    /\ Toggle(currentPeer)
    /\ UNCHANGED <<peerVars, doubt>>

ClickPeerCardSwitch(p) ==
    /\ peerRoute = "peers" /\ Toggle(p)
    /\ UNCHANGED <<peerVars, doubt>>

ClickDeletePeer ==
    /\ peerRoute \in Address /\ currentPeer # None
    /\ Dispatch({setDeletePeer(currentPeer)})
    /\ UNCHANGED <<peerVars, doubt>>
-----------------------------------------------------------------------------
PeersInit ==
    /\ peers \in [Address -> [id : {1}, address : Address, autoconnect : BOOLEAN] \cup {None}]
    /\ \A a \in Address : peers[a] # None => peers[a].address = a
    /\ \A p, q \in SavedPeers : p = q
    /\ peersMade = IF SavedPeers = {} THEN 0 ELSE 1
    /\ currentPeer = None /\ savedPeers = {}
    /\ peerRoute = None
    /\ peerAwaited = PeerFields

PeerUser ==
    \/ \E a \in Address : OpenPeer(a) \/ AddPeer(a)
    \/ OpenPeers \/ ClickPeerSwitch \/ ClickDeletePeer
    \/ \E p \in savedPeers : ClickPeerCardSwitch(p)

PeerReply ==
    /\ \E c \in calls :
        \/ fetchPeerFulfilled(c) \/ fetchSavedPeersFulfilled(c) \/ setSavePeerFulfilled(c)
        \/ setDeletePeerFulfilled(c) \/ setPeerAutoconnectFulfilled(c)
        \/ PeerThunkRejected(c)
    /\ UNCHANGED peerNode
-----------------------------------------------------------------------------
PeersTypeOK ==
    /\ peers \in [Address -> PeerEntry \cup {None}]
    /\ peersMade \in Nat
    /\ currentPeer \in PeerEntry \cup {None}
    /\ savedPeers \subseteq PeerEntry
    /\ peerRoute \in Address \cup {"peers", None}
    /\ peerAwaited \subseteq PeerFields

\* However saves of one host under several networks race, no two saved peers
\* have the same host and port or the same id.
SavedPeersAreUnique ==
    \A p, q \in SavedPeers :
        p.id = q.id \/ HostOf[p.address] = HostOf[q.address] => p = q

\* Once nothing is under way, the list is that of the node, and the page of an
\* address shows the peer saved for it, or offers to save one, but for what
\* overlapping or failed calls left stale, and for calls from another page.
QuietPeersTrue ==
    calls = {} =>
        /\ "savedPeers" \in peerAwaited \cup doubt \/ savedPeers = SavedPeers
        /\ peerRoute \in Address /\ "currentPeer" \notin peerAwaited \cup doubt =>
                currentPeer = PeerFor(peerRoute)

\* The page of an address that has had its answer never deletes or switches a
\* peer of another host.
PeerPageShowsItsPeer ==
    peerRoute \in Address /\ currentPeer # None =>
        "currentPeer" \in peerAwaited \/ OfPage(currentPeer.address)
=============================================================================
