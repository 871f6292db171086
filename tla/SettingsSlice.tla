---------------------------- MODULE SettingsSlice ----------------------------
(***************************************************************************)
(* The smaller slices of the web frontend: the Twitter accounts, the price *)
(* of a squeak, the network and the address of the node, and the session.  *)
(*                                                                         *)
(* A request without a session is redirected to the login page, which is   *)
(* no message: the call is rejected, and the page shows what it showed.    *)
(***************************************************************************)
EXTENDS Thunks

CONSTANTS
    Handle,
    Price,           \* prices that can be given in the form
    BadPrice,        \* those of them that are below zero
    DefaultPrice     \* the configured price

ASSUME SettingsAssumption ==
    /\ BadPrice \subseteq Price
    /\ None \notin Handle /\ None \notin Price /\ None # DefaultPrice

VARIABLES
    accounts,        \* the node: accounts[h] is the id of the account of h, or 0
    accountsMade,    \* the node: how many accounts have been made
    price,           \* the node: the price that is set, or None
    session,         \* the node: whether the browser is logged in
    twitterAccounts,
    sellPriceInfo,
    facts,           \* of network and externalAddress those that are known
    settingsRoute,   \* the page that is open
    settingsAwaited  \* fields that have had no answer since they were cleared

settingsNode == <<accounts, accountsMade, price, session>>
settingsFields == <<twitterAccounts, sellPriceInfo, facts>>
settingsVars == <<settingsNode, settingsFields, settingsRoute, settingsAwaited>>
-----------------------------------------------------------------------------
(* The thunks; no page reads a status of theirs.                           *)

fetchTwitterAccounts ==
    Read("fetchTwitterAccounts", None, <<<<"getTwitterAccounts", None>>>>, None)

setCreateTwitterAccount(h) ==
    Write("setCreateTwitterAccount", h,
          <<<<"createTwitterAccount", h>>, <<"getTwitterAccounts", None>>>>, None)

setDeleteTwitterAccount(id) ==
    Write("setDeleteTwitterAccount", id,
          <<<<"deleteTwitterAccount", id>>, <<"getTwitterAccounts", None>>>>, None)

fetchSellPrice == Read("fetchSellPrice", None, <<<<"getSellPrice", None>>>>, None)

\* Mutant: the price is read before it is changed.
setSellPrice_ReadFirst(p) ==
    Write("setSellPrice", p, <<<<"getSellPrice", None>>, <<"updateSellPrice", p>>>>, None)

setSellPrice(p) ==
    Write("setSellPrice", p, <<<<"updateSellPrice", p>>, <<"getSellPrice", None>>>>, None)

setClearSellPrice ==
    Write("setClearSellPrice", None, <<<<"clearSellPrice", None>>, <<"getSellPrice", None>>>>, None)

fetchNetwork == Read("fetchNetwork", None, <<<<"getNetwork", None>>>>, None)

fetchExternalAddress ==
    Read("fetchExternalAddress", None, <<<<"getExternalAddress", None>>>>, None)

setLogout == Write("setLogout", None, <<<<"logout", None>>>>, None)
-----------------------------------------------------------------------------
(* The node.                                                               *)

\* Mutant: accounts that were deleted, or never made, are in the list too.
AccountEntries_Deleted == {[id |-> accounts[h], handle |-> h] : h \in Handle}

AccountEntries == {[id |-> accounts[h], handle |-> h] : h \in {g \in Handle : accounts[g] # 0}}

SellPrice == IF price = None THEN DefaultPrice ELSE price

getTwitterAccounts(c) ==
    /\ At(c, "getTwitterAccounts") /\ session
    /\ Answer(c, AccountEntries)
    /\ UNCHANGED settingsNode

\* A second account of one handle is not made, and nobody is told.
createTwitterAccount(c) ==
    /\ At(c, "createTwitterAccount") /\ session
    /\ IF accounts[Argument(c)] # 0 THEN UNCHANGED <<accounts, accountsMade>> ELSE
        /\ accountsMade' = accountsMade + 1
        /\ accounts' = [accounts EXCEPT ![Argument(c)] = accountsMade + 1]
    /\ Answer(c, None)
    /\ UNCHANGED <<price, session>>

deleteTwitterAccount(c) ==
    /\ At(c, "deleteTwitterAccount") /\ session
    /\ accounts' = [h \in Handle |-> IF accounts[h] = Argument(c) THEN 0 ELSE accounts[h]]
    /\ Answer(c, None)
    /\ UNCHANGED <<accountsMade, price, session>>

getSellPrice(c) ==
    /\ At(c, "getSellPrice") /\ session
    /\ Answer(c, SellPrice)
    /\ UNCHANGED settingsNode

updateSellPrice(c) ==
    /\ At(c, "updateSellPrice") /\ session
    /\ IF Argument(c) \in BadPrice THEN Refuse(c) /\ UNCHANGED price
       ELSE Answer(c, None) /\ price' = Argument(c)
    /\ UNCHANGED <<accounts, accountsMade, session>>

clearSellPrice(c) ==
    /\ At(c, "clearSellPrice") /\ session
    /\ price' = None
    /\ Answer(c, None)
    /\ UNCHANGED <<accounts, accountsMade, session>>

\* Network and address are configured, they do not change.
getNetwork(c) ==
    /\ At(c, "getNetwork") /\ session
    /\ Answer(c, "network")
    /\ UNCHANGED settingsNode

getExternalAddress(c) ==
    /\ At(c, "getExternalAddress") /\ session
    /\ Answer(c, "externalAddress")
    /\ UNCHANGED settingsNode

logout(c) ==
    /\ At(c, "logout")
    /\ session' = FALSE
    /\ Answer(c, None)
    /\ UNCHANGED <<accounts, accountsMade, price>>

\* The login page is not the message that was expected.
Redirected(c) ==
    /\ ~session /\ c.todo # <<>> /\ ~At(c, "logout")
    /\ Refuse(c)
    /\ UNCHANGED settingsNode

SettingsThunks ==
    {"fetchTwitterAccounts", "setCreateTwitterAccount", "setDeleteTwitterAccount",
     "fetchSellPrice", "setSellPrice", "setClearSellPrice",
     "fetchNetwork", "fetchExternalAddress", "setLogout"}

SettingsServer ==
    /\ \E c \in Of(SettingsThunks) :
        \/ getTwitterAccounts(c) \/ createTwitterAccount(c) \/ deleteTwitterAccount(c)
        \/ getSellPrice(c) \/ updateSellPrice(c) \/ clearSellPrice(c)
        \/ getNetwork(c) \/ getExternalAddress(c) \/ logout(c) \/ Redirected(c)
    /\ UNCHANGED <<settingsFields, settingsRoute, settingsAwaited>>
    /\ UNCHANGED <<view, loading, events, faults, doubt, crashed>>
-----------------------------------------------------------------------------
(* The reducers.                                                           *)

SettingsFieldOf(c) ==
    IF c.thunk \in {"fetchSellPrice", "setSellPrice", "setClearSellPrice"}
    THEN "sellPriceInfo" ELSE "twitterAccounts"

SettingsArrives(c) ==
    /\ Replaces(c, SettingsFieldOf(c))
    /\ settingsAwaited' = settingsAwaited \ {SettingsFieldOf(c)}

\* Fetched, created or deleted: the list is replaced.
twitterAccountsFulfilled(c) ==
    /\ \E thunk \in {"fetchTwitterAccounts", "setCreateTwitterAccount", "setDeleteTwitterAccount"} :
            Done(c, thunk)
    /\ twitterAccounts' = c.reply
    /\ Settle(c, {}) /\ SettingsArrives(c)
    /\ UNCHANGED <<sellPriceInfo, facts, settingsRoute>>

sellPriceFulfilled(c) ==
    /\ \E thunk \in {"fetchSellPrice", "setSellPrice", "setClearSellPrice"} : Done(c, thunk)
    /\ sellPriceInfo' = c.reply
    /\ Settle(c, {}) /\ SettingsArrives(c)
    /\ UNCHANGED <<twitterAccounts, facts, settingsRoute>>

fetchNetworkFulfilled(c) ==
    /\ Done(c, "fetchNetwork")
    /\ facts' = facts \cup {c.reply}
    /\ Settle(c, {})
    /\ UNCHANGED <<doubt, twitterAccounts, sellPriceInfo, settingsRoute, settingsAwaited>>

fetchExternalAddressFulfilled(c) ==
    /\ Done(c, "fetchExternalAddress")
    /\ facts' = facts \cup {c.reply}
    /\ Settle(c, {})
    /\ UNCHANGED <<doubt, twitterAccounts, sellPriceInfo, settingsRoute, settingsAwaited>>

\* The page is loaded again: everything in the browser is gone, calls too.
setLogoutFulfilled(c) ==
    /\ Done(c, "setLogout")
    /\ calls' = {} /\ loading' = {} /\ doubt' = {} /\ crashed' = {}
    /\ twitterAccounts' = {} /\ sellPriceInfo' = None /\ facts' = {}
    /\ settingsRoute' = "login"
    /\ settingsAwaited' = {"sellPriceInfo", "twitterAccounts"}
    /\ UNCHANGED <<view, events, faults>>

SettingsThunkRejected(c) ==
    /\ c.thunk \in SettingsThunks
    /\ Rejected(c, FALSE, {SettingsFieldOf(c)})
    /\ UNCHANGED <<settingsFields, settingsRoute, settingsAwaited>>
-----------------------------------------------------------------------------
(* The pages.                                                              *)

\* The login page opens the frontend, and its menu reads the price.
OpenApp ==
    /\ settingsRoute = "login"
    /\ Dispatch({fetchSellPrice})
    /\ session' = TRUE /\ settingsRoute' = "app"
    /\ UNCHANGED <<accounts, accountsMade, price, settingsFields, settingsAwaited, doubt>>

InApp == settingsRoute # "login"

OpenTwitterAccounts ==
    /\ InApp /\ settingsRoute # "twitter"
    /\ Dispatch({fetchTwitterAccounts})
    /\ settingsRoute' = "twitter" /\ twitterAccounts' = {}
    /\ settingsAwaited' = settingsAwaited \cup {"twitterAccounts"}
    /\ UNCHANGED <<settingsNode, sellPriceInfo, facts, doubt>>

\* The page of the peers asks for the address, that of a squeak for the network.
OpenAddress ==
    /\ InApp /\ settingsRoute # "peers"
    /\ Dispatch({fetchExternalAddress})
    /\ settingsRoute' = "peers"
    /\ UNCHANGED <<settingsNode, settingsFields, settingsAwaited, doubt>>

OpenNetwork ==
    /\ InApp /\ settingsRoute # "squeak"
    /\ Dispatch({fetchNetwork})
    /\ settingsRoute' = "squeak"
    /\ UNCHANGED <<settingsNode, settingsFields, settingsAwaited, doubt>>

addTwitterAccount(h) ==
    /\ settingsRoute = "twitter" /\ Dispatch({setCreateTwitterAccount(h)})
    /\ UNCHANGED <<settingsVars, doubt>>

ClickDeleteAccount(a) ==
    /\ settingsRoute = "twitter" /\ Dispatch({setDeleteTwitterAccount(a.id)})
    /\ UNCHANGED <<settingsVars, doubt>>

\* The form is only there when there is a price.
submitSellPrice(p) ==
    /\ InApp /\ sellPriceInfo # None /\ Dispatch({setSellPrice(p)})
    /\ UNCHANGED <<settingsVars, doubt>>

setSellPriceToDefault ==
    /\ InApp /\ Dispatch({setClearSellPrice})
    /\ UNCHANGED <<settingsVars, doubt>>

ClickLogout ==
    /\ InApp /\ Dispatch({setLogout})
    /\ UNCHANGED <<settingsVars, doubt>>
-----------------------------------------------------------------------------
SettingsInit ==
    /\ accounts = [h \in Handle |-> 0] /\ accountsMade = 0 /\ price = None
    /\ session = FALSE /\ settingsRoute = "login"
    /\ twitterAccounts = {} /\ sellPriceInfo = None /\ facts = {}
    /\ settingsAwaited = {"sellPriceInfo", "twitterAccounts"}

SettingsUser ==
    \/ OpenApp \/ OpenTwitterAccounts \/ OpenAddress \/ OpenNetwork
    \/ \E h \in Handle : addTwitterAccount(h)
    \/ \E a \in twitterAccounts : ClickDeleteAccount(a)
    \/ \E p \in Price : submitSellPrice(p)
    \/ setSellPriceToDefault \/ ClickLogout

SettingsReply ==
    /\ \E c \in calls :
        \/ twitterAccountsFulfilled(c) \/ sellPriceFulfilled(c)
        \/ fetchNetworkFulfilled(c) \/ fetchExternalAddressFulfilled(c)
        \/ setLogoutFulfilled(c) \/ SettingsThunkRejected(c)
    /\ UNCHANGED settingsNode
-----------------------------------------------------------------------------
Account == [id : Nat \ {0}, handle : Handle]

SettingsTypeOK ==
    /\ accounts \in [Handle -> Nat] /\ accountsMade \in Nat
    /\ price \in Price \cup {None} /\ session \in BOOLEAN
    /\ twitterAccounts \subseteq Account
    /\ sellPriceInfo \in Price \cup {DefaultPrice, None}
    /\ facts \subseteq {"network", "externalAddress"}
    /\ settingsRoute \in {"login", "app", "twitter", "peers", "squeak"}
    /\ settingsAwaited \subseteq {"sellPriceInfo", "twitterAccounts"}

\* Once nothing is under way, the menu shows the price the node sells for, and
\* the list its accounts, but for what overlapping or failed calls left stale.
QuietSettingsTrue ==
    calls = {} =>
        \A field \in {"sellPriceInfo", "twitterAccounts"} \ (settingsAwaited \cup doubt) :
            CASE field = "sellPriceInfo" -> sellPriceInfo = SellPrice
              [] OTHER -> twitterAccounts = AccountEntries
=============================================================================
