------------------------------ MODULE DiscordUsers ------------------------------
(***************************************************************************)
(* The accounts of the DiscordAuthSystem module of LaunchServer              *)
(* (JsonUserStorage.java, DiscordUser.java, authenticateDiscord and          *)
(* refreshAccessToken of DiscordAuthCoreProvider.java).  Each request has a   *)
(* thread; the storage is synchronized call by call, so what one thread       *)
(* found may not be what is there when it writes.                            *)
(*                                                                          *)
(* All nicknames are equal here, so that names differ by their suffix; a      *)
(* session token is the number of the thread that issued it, 0 for none.      *)
(***************************************************************************)
EXTENDS Naturals, Sequences, FiniteSets, Functions

CONSTANTS Threads,       \* numbers of the requests of a behaviour
          Accounts,      \* Discord accounts
          Unlucky        \* bound: the requests of which a save may fail

ASSUME ThreadsAssumption ==
    /\ Threads \subseteq Nat \ {0} /\ IsFiniteSet(Accounts) /\ Accounts # {}

VARIABLES users,     \* the user objects that were ever created
          byAccount, \* byAccount[a]: the object that is found for account a, 0 for none
          taken,     \* the names in byUsername
          database,  \* Database.json: the stored account a, or NoAccount
          torn,      \* what is left of Database.json: all ("no"), nothing ("empty"), a part ("cut")
          unsaved,   \* the last save failed, which is only logged
          found,     \* what the starts of LaunchServer found: all that the file had had, "nothing", or
                     \* a file that is no JSON ("broken"): there is no storage then
          thread,    \* thread[t]: what thread t does
          twins      \* history: two threads have created the same account

storageVars == <<users, byAccount, taken, database, torn, unsaved, found>>
discordVars == <<storageVars, thread, twins>>

NoAccount == [name |-> 0, token |-> 0]

NoThread == [kind |-> "none", at |-> "none", state |-> 0, account |-> CHOOSE a \in Accounts : TRUE,
             object |-> 0]

DiscordInit ==
    /\ users = <<>>
    /\ byAccount = [a \in Accounts |-> 0]
    /\ taken = {}
    /\ database = [a \in Accounts |-> NoAccount]
    /\ torn = "no" /\ unsaved = FALSE /\ found = "all"
    /\ thread = [t \in Threads |-> NoThread]
    /\ twins = FALSE

-----------------------------------------------------------------------------
(* JsonUserStorage *)

Stored(objects, index) ==
    [a \in Accounts |-> IF index[a] = 0 THEN NoAccount
                        ELSE [name |-> objects[index[a]].name, token |-> objects[index[a]].token]]

(* A file that is opened to be written is empty, until the writer has got to its end. *)
CutOff == database' = [a \in Accounts |-> NoAccount] /\ torn' \in {"empty", "cut"}

(* save: every account that is indexed, as it is now; the file cannot be opened, or it cannot be *)
(* written to its end. *)
Save(t) ==
    \/ database' = Stored(users', byAccount') /\ torn' = "no" /\ unsaved' = FALSE
    \/ t \in Unlucky /\ unsaved' = TRUE /\ (CutOff \/ UNCHANGED <<database, torn>>)

\* Mutant, and what an empty file, or one that cannot be opened, leaves.
LoadsNothing ==
    /\ users' = <<>>
    /\ byAccount' = [a \in Accounts |-> 0]
    /\ taken' = {}

(* load: an object for every account of the file, in any order. *)
Loaded ==
    LET known == {a \in Accounts : database[a] # NoAccount}
        order == CHOOSE f \in Bijection(1 .. Cardinality(known), known) : TRUE
    IN  /\ users' = [i \in 1 .. Cardinality(known) |->
                        [account |-> order[i], name |-> database[order[i]].name,
                         token |-> database[order[i]].token]]
        /\ byAccount' = [a \in Accounts |-> IF a \notin known THEN 0
                                            ELSE CHOOSE i \in 1 .. Cardinality(known) : order[i] = a]
        /\ taken' = {database[a].name : a \in known}

\* Mutant: no suffix is looked for.
FirstName == 1

(* The nickname, or the first suffix of it that nobody has. *)
FreeName ==
    CHOOSE n \in 1 .. Cardinality(taken) + 1 : n \notin taken /\ \A m \in 1 .. n - 1 : m \in taken

-----------------------------------------------------------------------------
(* Threads *)

At(t, step) == thread[t].at = step

Go(t, step) == thread' = [thread EXCEPT ![t].at = step]

(* Discord says who it is: the code is exchanged, the user and the guilds are fetched. *)
Exchange(t) ==
    /\ At(t, "exchange")
    /\ Go(t, "find") \/ Go(t, "end")
    /\ UNCHANGED <<storageVars, twins>>

Find(t) ==
    /\ At(t, "find")
    /\ LET o == byAccount[thread[t].account]
       IN  thread' = [thread EXCEPT ![t].object = o, ![t].at = IF o = 0 THEN "create" ELSE "update"]
    /\ UNCHANGED <<storageVars, twins>>

(* createUser is one synchronized call; it does not look whether the account is there by now. *)
CreateUser(t) ==
    /\ At(t, "create")
    /\ LET a == thread[t].account
           o == Len(users) + 1
           n == FreeName
       IN  /\ users' = Append(users, [account |-> a, name |-> n, token |-> 0])
           /\ twins' = (twins \/ byAccount[a] # 0)
           /\ byAccount' = [byAccount EXCEPT ![a] = o]
           /\ taken' = taken \cup {n}
           /\ thread' = [thread EXCEPT ![t].object = o, ![t].at = "update"]
    /\ Save(t)
    /\ UNCHANGED found

(* updateOAuth: new session tokens. *)
UpdateUser(t) ==
    /\ At(t, "update")
    /\ users' = [users EXCEPT ![thread[t].object].token = t]
    /\ Go(t, "save")
    /\ UNCHANGED <<byAccount, taken, database, torn, unsaved, found, twins>>

\* Mutant: the tokens are renewed after the last save.
SavesNothing(t) ==
    /\ At(t, "save")
    /\ Go(t, "report")
    /\ UNCHANGED <<storageVars, twins>>

SaveUsers(t) ==
    /\ At(t, "save")
    /\ Go(t, "report")
    /\ UNCHANGED <<users, byAccount, taken, found, twins>>
    /\ Save(t)

(* The token of the session that the thread reports. *)
Reported(t) == users[thread[t].object].token

(* A launcher whose session is known comes back with its refresh token. *)
BeginRefresh(t) ==
    /\ At(t, "none")
    /\ \E a \in Accounts :
          /\ byAccount[a] # 0 /\ users[byAccount[a]].token # 0
          /\ thread' = [thread EXCEPT ![t] = [@ EXCEPT !.kind = "refresh", !.account = a,
                                                       !.object = byAccount[a], !.at = "renew"]]
    /\ UNCHANGED <<storageVars, twins>>

Renew(t) ==
    /\ At(t, "renew")
    /\ Go(t, "update") \/ Go(t, "end")
    /\ UNCHANGED <<storageVars, twins>>

RefreshEnds(t) ==
    /\ At(t, "report") /\ thread[t].kind = "refresh"
    /\ Go(t, "end")
    /\ UNCHANGED <<storageVars, twins>>

Authenticate(t) ==
    \/ Exchange(t) \/ Find(t) \/ CreateUser(t) \/ UpdateUser(t) \/ SaveUsers(t)
    \/ BeginRefresh(t) \/ Renew(t) \/ RefreshEnds(t)

(* LaunchServer is killed, perhaps while it writes, and starts again.  A file that cannot be    *)
(* opened is only logged, and the next save replaces it; one that is no JSON is not caught, and    *)
(* then the module does not get to its storage. *)
Killed ==
    /\ unsaved \/ \E t \in Threads : thread[t].at \notin {"none", "end"}
    /\ thread' = [t \in Threads |-> IF thread[t].at = "none" THEN NoThread
                                    ELSE [NoThread EXCEPT !.at = "end"]]
    /\ \/ UNCHANGED <<database, torn>>
       \/ (\E t \in Threads : thread[t].at \in {"create", "save"}) /\ CutOff
    /\ \/ torn' = "no" /\ Loaded /\ UNCHANGED found
       \/ torn' = "cut" /\ LoadsNothing /\ found' = "broken"
       \/ LoadsNothing /\ found' = "nothing"
    /\ unsaved' = FALSE /\ UNCHANGED twins
=============================================================================
