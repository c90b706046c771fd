------------------------------ MODULE AppKeys ------------------------------
(***************************************************************************)
(* Application keys and their tokens. The keys live with the provider of   *)
(* authentication: auth0, where they are clients with a grant, or gotrue,  *)
(* where they are users. With auth0 the tokens got for a key are kept in   *)
(* the user store until they are near their end. Every call to the         *)
(* provider may fail, or take effect and lose its answer; requests         *)
(* interleave between calls. Users also invite others, one call for each   *)
(* address.                                                                *)
(***************************************************************************)
EXTENDS Naturals, Sequences, FiniteSets

CONSTANTS AkApps,       \* ids of keys, in the order the provider lists them: 1..n
          AkUsers,      \* subjects of requests
          AkProjects,   \* projects of keys
          AkStart,      \* the keys there may be at the start
          AkReqs,       \* requests in progress
          PerPage,      \* clients on a page of auth0's list
          Emails,       \* the addresses of a request for invitations, in order
          TokenLife,    \* seconds a token is good for
          TokenMargin,  \* a kept token is not used in its last seconds
          KeepDelay,    \* the longest a request takes between two of its steps
          NewNames,     \* names a key may be given later
          MaxAkTime, MaxSecret, MaxAkAsks

ASSUME AkNumbers == PerPage \in Nat \ {0} /\ TokenLife \in Nat /\ TokenMargin \in Nat /\ KeepDelay \in Nat

\* Keys are numbered in the order the provider lists them.
ASSUME AkIds == AkApps = 1 .. Cardinality(AkApps)

VARIABLES topic,     \* requests are about "keys" or about "users": they share no state
          provider,  \* "auth0" or "gotrue"
          spent,     \* ids given to keys: none is given twice
          apps,      \* the keys of the provider
          keptTokens,      \* the tokens of the user store: <<app, secret, expiry of the entry, of the token>>
          akReq,     \* the requests in progress
          invited,   \* the addresses invited
          akNow,
          issued,    \* ghost: the tokens the provider made: <<app, secret, expiry>>
          told,      \* ghost: the secret and the name of each key its user was told last
          unsure,    \* ghost: keys whose rotation or creation ended in an error
          crossed,   \* ghost: secrets whose token was stored across a removal
          wrong,     \* ghost: a step took away a key or gave a token it must not
          akAsks

akvars == <<topic, spent, provider, apps, keptTokens, akReq, invited, akNow, issued, told, unsure, crossed, wrong, akAsks>>

NoApp == [by |-> "", projects |-> {}, secret |-> 0, name |-> "", granted |-> FALSE]
App(by, projects, secret) == [by |-> by, projects |-> projects, secret |-> secret, name |-> "first", granted |-> TRUE]

ASSUME AkStarts ==
    \A s \in AkStart :
        /\ s \in [AkApps -> {s[a] : a \in AkApps}]
        /\ \A a \in AkApps : \/ s[a] = NoApp
                             \/ s[a].secret \in 1 .. MaxSecret /\ s[a] = App(s[a].by, s[a].projects, s[a].secret)

LiveKeys == {a \in AkApps : apps[a] # NoApp}

\* The project of a key for all projects, which only gotrue has.
Global == ""

NoReq == [op |-> "idle", pc |-> "", user |-> "", app |-> 0, project |-> "", secret |-> 0, name |-> "",
          todo |-> <<>>, page |-> 0, pages |-> 0, quiet |-> TRUE, ends |-> 0]
Goes(r, pc) == akReq' = [akReq EXCEPT ![r].pc = pc]
Finishes(r) == akReq' = [akReq EXCEPT ![r] = NoReq]
At(r, op, pc) == akReq[r].op = op /\ akReq[r].pc = pc

\* Requests that walk the list note that the keys changed under them.
Disturb(reqs, r) == [q \in AkReqs |-> IF reqs[q] = NoReq THEN NoReq ELSE [reqs[q] EXCEPT !.quiet = @ /\ q = r]]
FinishesAfterChange(r) == akReq' = Disturb([akReq EXCEPT ![r] = NoReq], r)

FirstStep(op) ==
    CASE op = "create" -> IF provider = "auth0" THEN "client" ELSE "signup"
      [] op \in {"delete", "rotate", "update"} -> IF provider = "auth0" THEN "owner" ELSE op
      [] op = "token" -> IF provider = "auth0" THEN "lookup" ELSE "ask"
      [] op = "clear" -> "list"
      [] op = "invite" -> "next"

\* A token is asked for with a secret the key had. What an operation does not look at has one value.
MayAsk(op, u, a, p, s, n) ==
    /\ op \in {"clear", "invite"} => p # Global
    /\ op # "update" => n = CHOOSE x \in NewNames : TRUE
    /\ op = "create" => /\ a \notin spent /\ s = 1
                        /\ \A q \in AkReqs : akReq[q].op # "create"
    /\ op = "create" /\ p = Global => provider = "gotrue"
    /\ op \in {"delete", "rotate", "update"} => apps[a] # NoApp /\ p \in apps[a].projects /\ s = 1
    /\ op = "token" => u = apps[a].by /\ s \in 1..apps[a].secret /\ p \in apps[a].projects
    /\ op \in {"clear", "invite"} => a = CHOOSE x \in AkApps : TRUE
    /\ op \in {"clear", "invite"} => s = 1
    /\ op = "invite" => p = CHOOSE x \in AkProjects : TRUE

NewReq(op, u, a, p, s, n) ==
    [NoReq EXCEPT !.op = op, !.pc = FirstStep(op), !.user = u, !.app = a, !.project = p,
                  !.secret = s, !.name = n, !.todo = IF op = "invite" THEN Emails ELSE <<>>]

AskedOps == IF topic = "keys" THEN {"create", "delete", "rotate", "update", "token", "clear"} ELSE {"invite"}

\* A request arrives, under the first free number.
Arrive(r) ==
    /\ akReq[r] = NoReq /\ akAsks < MaxAkAsks
    /\ \A q \in AkReqs : q < r => akReq[q] # NoReq
    /\ \E op \in AskedOps, u \in AkUsers, a \in AkApps, p \in AkProjects \cup {Global}, s \in 1..MaxSecret, n \in NewNames :
           /\ MayAsk(op, u, a, p, s, n)
           /\ akReq' = [akReq EXCEPT ![r] = NewReq(op, u, a, p, s, n)]
    /\ akAsks' = akAsks + 1
    /\ UNCHANGED <<topic, spent, provider, apps, keptTokens, invited, akNow, issued, told, unsure, crossed, wrong>>

-----------------------------------------------------------------------------
(***************************************************************************)
(* Creating a key. With auth0: the client, then its grant; a client whose  *)
(* grant failed is deleted again. That deletion's own error is what is     *)
(* reported, so there is no error to report, and a panic, when it worked.  *)
(***************************************************************************)
Create(a, r, granted) == [apps EXCEPT ![a] = [App(akReq[r].user, {akReq[r].project}, 1) EXCEPT !.granted = granted]]

CreateClient(r) ==
    /\ At(r, "create", "client")
    /\ \E sent, heard \in BOOLEAN :
           /\ heard => sent
           /\ spent' = IF sent THEN spent \cup {akReq[r].app} ELSE spent
           /\ apps' = IF sent THEN Create(akReq[r].app, r, FALSE) ELSE apps
           /\ unsure' = IF sent /\ ~heard THEN unsure \cup {akReq[r].app} ELSE unsure
           /\ akReq' = LET next == IF heard THEN [akReq EXCEPT ![r].pc = "grant"] ELSE [akReq EXCEPT ![r] = NoReq]
                       IN  IF sent THEN Disturb(next, r) ELSE next
    /\ UNCHANGED <<topic, provider, keptTokens, invited, akNow, issued, told, crossed, wrong, akAsks>>

CreateGrant(r) ==
    /\ At(r, "create", "grant")
    /\ LET a == akReq[r].app
       IN  \/ /\ apps[a] # NoApp
              /\ apps' = [apps EXCEPT ![a].granted = TRUE]
              /\ told' = [told EXCEPT ![a] = <<apps[a].secret, apps[a].name>>]
              /\ Finishes(r)
           \/ Goes(r, "cleanup") /\ UNCHANGED <<apps, told>>
    /\ UNCHANGED <<topic, spent, provider, keptTokens, invited, akNow, issued, unsure, crossed, wrong, akAsks>>

\* Mutant: a client without a grant is not deleted.
CleanupSkipped(r) ==
    /\ At(r, "create", "cleanup")
    /\ Finishes(r)
    /\ UNCHANGED <<topic, spent, provider, apps, keptTokens, invited, akNow, issued, told, unsure, crossed, wrong, akAsks>>

Cleanup(r) ==
    /\ At(r, "create", "cleanup")
    /\ \/ apps' = [apps EXCEPT ![akReq[r].app] = NoApp] /\ FinishesAfterChange(r) /\ UNCHANGED unsure
       \/ unsure' = unsure \cup {akReq[r].app} /\ Finishes(r) /\ UNCHANGED apps
    /\ UNCHANGED <<topic, spent, provider, keptTokens, invited, akNow, issued, told, crossed, wrong, akAsks>>

\* The call that signs a user up; it may have worked and its answer be lost.
createUser(r, sent, heard) ==
    /\ heard => sent
    /\ spent' = IF sent THEN spent \cup {akReq[r].app} ELSE spent
    /\ apps' = IF sent THEN Create(akReq[r].app, r, TRUE) ELSE apps
    /\ IF sent THEN FinishesAfterChange(r) ELSE Finishes(r)

\* With gotrue the server makes the id and the secret, and signs the user up, for one project or for all.
SignUp(r) ==
    /\ At(r, "create", "signup")
    /\ \E sent, heard \in BOOLEAN :
           /\ createUser(r, sent, heard)
           /\ told' = IF heard THEN [told EXCEPT ![akReq[r].app] = <<1, "first">>] ELSE told
           /\ unsure' = IF sent /\ ~heard THEN unsure \cup {akReq[r].app} ELSE unsure
    /\ UNCHANGED <<topic, provider, keptTokens, invited, akNow, issued, crossed, wrong, akAsks>>

-----------------------------------------------------------------------------
(***************************************************************************)
(* Deleting a key and rotating its secret. With auth0 the owner is         *)
(* checked, the kept tokens of the key are deleted in a transaction, and   *)
(* only then the provider is called.                                       *)
(***************************************************************************)
validateOwnership(r) ==
    /\ akReq[r].pc = "owner"
    /\ IF apps[akReq[r].app].by = akReq[r].user THEN Goes(r, IF akReq[r].op = "update" THEN "update" ELSE "uncache") ELSE Finishes(r)
    /\ UNCHANGED <<topic, spent, provider, apps, keptTokens, invited, akNow, issued, told, unsure, crossed, wrong, akAsks>>

deleteApplication(r) ==
    /\ akReq[r].pc = "uncache"
    /\ \/ /\ keptTokens' = {t \in keptTokens : t[1] # akReq[r].app}
          /\ Goes(r, IF akReq[r].op = "rotate" THEN "rotate" ELSE "delete")
       \/ Finishes(r) /\ UNCHANGED keptTokens
    /\ UNCHANGED <<topic, spent, provider, apps, invited, akNow, issued, told, unsure, crossed, wrong, akAsks>>

\* Token requests of a key that are on their way when its secret goes.
OnTheWay(a) == {<<a, akReq[q].secret>> : q \in {x \in AkReqs : akReq[x].op = "token" /\ akReq[x].app = a}}
LeftBehind(a) == {<<t[1], t[2]>> : t \in {x \in keptTokens : x[1] = a}}

\* The deletion asked for by itself, or one of those of a project.
Removal(r) ==
    /\ akReq[r].pc = "delete"
    /\ LET a == akReq[r].app
       IN  \/ /\ apps[a] # NoApp
              /\ apps' = [apps EXCEPT ![a] = NoApp]
              /\ crossed' = crossed \cup OnTheWay(a) \cup LeftBehind(a)
              /\ wrong' = (wrong \/ (akReq[r].op = "clear" /\ <<apps[a].by, apps[a].projects>> # <<akReq[r].user, {akReq[r].project}>>))
              /\ IF akReq[r].op = "clear" THEN akReq' = Disturb([akReq EXCEPT ![r].pc = "each"], r) ELSE FinishesAfterChange(r)
           \/ Finishes(r) /\ UNCHANGED <<apps, crossed, wrong>>
    /\ UNCHANGED <<topic, spent, provider, keptTokens, invited, akNow, issued, told, unsure, akAsks>>

DeleteClient(r) == provider = "auth0" /\ Removal(r)
DeleteUser(r) == provider = "gotrue" /\ Removal(r)

Rotation(r) ==
    /\ At(r, "rotate", "rotate")
    /\ LET a == akReq[r].app
       IN  \/ /\ apps[a] # NoApp /\ apps[a].secret < MaxSecret
              /\ apps' = [apps EXCEPT ![a].secret = @ + 1]
              /\ crossed' = crossed \cup OnTheWay(a) \cup LeftBehind(a)
              /\ \/ told' = [told EXCEPT ![a] = <<apps[a].secret + 1, IF provider = "auth0" THEN apps[a].name ELSE @[2]>>] /\ UNCHANGED unsure
                 \/ unsure' = unsure \cup {a} /\ UNCHANGED told
           \/ UNCHANGED <<apps, crossed, told, unsure>>
    /\ Finishes(r)
    /\ UNCHANGED <<topic, spent, provider, keptTokens, invited, akNow, issued, wrong, akAsks>>

RotateClient(r) == provider = "auth0" /\ Rotation(r)
RotateUser(r) == provider = "gotrue" /\ Rotation(r)

-----------------------------------------------------------------------------
(***************************************************************************)
(* Giving a key a new name. auth0 is asked for the key afterwards, and the *)
(* user is told what it says; with gotrue the user is told their own name. *)
(***************************************************************************)
UpdateClient(r) ==
    /\ At(r, "update", "update") /\ provider = "auth0"
    /\ LET a == akReq[r].app
       IN  \E sent, heard \in BOOLEAN :
              /\ heard => sent
              /\ sent => apps[a] # NoApp
              /\ apps' = IF sent THEN [apps EXCEPT ![a].name = akReq[r].name] ELSE apps
              /\ unsure' = IF sent /\ ~heard THEN unsure \cup {a} ELSE unsure
              /\ IF heard THEN Goes(r, "read") ELSE Finishes(r)
    /\ UNCHANGED <<topic, spent, provider, keptTokens, invited, akNow, issued, told, crossed, wrong, akAsks>>

ReadUpdated(r) ==
    /\ At(r, "update", "read")
    /\ LET a == akReq[r].app
       IN  \/ apps[a] # NoApp /\ told' = [told EXCEPT ![a] = <<apps[a].secret, apps[a].name>>] /\ UNCHANGED unsure
           \/ unsure' = unsure \cup {a} /\ UNCHANGED told
    /\ Finishes(r)
    /\ UNCHANGED <<topic, spent, provider, apps, keptTokens, invited, akNow, issued, crossed, wrong, akAsks>>

UpdateUser(r) ==
    /\ At(r, "update", "update") /\ provider = "gotrue"
    /\ LET a == akReq[r].app
       IN  \/ /\ apps[a] # NoApp
              /\ apps' = [apps EXCEPT ![a].name = akReq[r].name]
              /\ \/ told' = [told EXCEPT ![a][2] = akReq[r].name] /\ UNCHANGED unsure
                 \/ unsure' = unsure \cup {a} /\ UNCHANGED told
           \/ UNCHANGED <<apps, told, unsure>>
    /\ Finishes(r)
    /\ UNCHANGED <<topic, spent, provider, keptTokens, invited, akNow, issued, crossed, wrong, akAsks>>

-----------------------------------------------------------------------------
(***************************************************************************)
(* Getting a token with a key. With auth0 the user store is asked first;   *)
(* an entry near its end is deleted, in a transaction of its own, and the  *)
(* token of the provider is inserted, which fails when there is one.       *)
(***************************************************************************)
\* Mutant: a kept token is used to its last second.
StillGoodToTheEnd(t) == t[3] > akNow

StillGood(t) == t[3] > akNow + TokenMargin

Entries(r) == {t \in keptTokens : t[1] = akReq[r].app /\ t[2] = akReq[r].secret}

\* The answer of a token from the store: one of the provider's, for this secret, that has not ended.
Answered(r, t) ==
    wrong' = (wrong \/ <<t[1], t[2], t[4]>> \notin issued \/ t[1] # akReq[r].app \/ t[2] # akReq[r].secret \/ t[4] <= akNow)

Lookup(r) ==
    /\ At(r, "token", "lookup")
    /\ \/ \E t \in Entries(r) : StillGood(t) /\ Answered(r, t) /\ Finishes(r)
       \/ (\E t \in Entries(r) : ~StillGood(t)) /\ Goes(r, "expired") /\ UNCHANGED wrong
       \/ Entries(r) = {} /\ Goes(r, "ask") /\ UNCHANGED wrong
    /\ UNCHANGED <<topic, spent, provider, apps, keptTokens, invited, akNow, issued, told, unsure, crossed, akAsks>>

deleteApplicationMetadata(r) ==
    /\ At(r, "token", "expired")
    /\ \/ keptTokens' = keptTokens \ Entries(r) /\ Goes(r, "ask")
       \/ Finishes(r) /\ UNCHANGED keptTokens
    /\ UNCHANGED <<topic, spent, provider, apps, invited, akNow, issued, told, unsure, crossed, wrong, akAsks>>

\* The provider makes a token for a key with a grant and its present secret.
TokenMade(r) ==
    LET a == akReq[r].app
    IN  apps[a].granted /\ apps[a].secret = akReq[r].secret /\ issued' = issued \cup {<<a, akReq[r].secret, akNow + TokenLife>>}

AskAuth0(r) ==
    /\ At(r, "token", "ask") /\ provider = "auth0"
    /\ \/ TokenMade(r) /\ akReq' = [akReq EXCEPT ![r].pc = "keep", ![r].ends = akNow + TokenLife]
       \/ Finishes(r) /\ UNCHANGED issued
    /\ UNCHANGED <<topic, spent, provider, apps, keptTokens, invited, akNow, told, unsure, crossed, wrong, akAsks>>

\* Tokens of gotrue are not kept.
AskGotrue(r) ==
    /\ At(r, "token", "ask") /\ provider = "gotrue"
    /\ TokenMade(r) \/ UNCHANGED issued
    /\ Finishes(r)
    /\ UNCHANGED <<topic, spent, provider, apps, keptTokens, invited, akNow, told, unsure, crossed, wrong, akAsks>>

\* The entry counts the token's seconds from when it is stored, not from when the token was made.
insertApplicationMetadata(r) ==
    /\ At(r, "token", "keep")
    /\ LET t == <<akReq[r].app, akReq[r].secret, akNow + TokenLife, akReq[r].ends>>
       IN  \/ Entries(r) = {} /\ keptTokens' = keptTokens \cup {t}
           \/ UNCHANGED keptTokens
    /\ Finishes(r)
    /\ UNCHANGED <<topic, spent, provider, apps, invited, akNow, issued, told, unsure, crossed, wrong, akAsks>>

-----------------------------------------------------------------------------
(***************************************************************************)
(* Deleting the keys of a project: list the user's keys, page by page with *)
(* auth0, then delete them one by one; the first failure ends it. Keys of  *)
(* several projects are listed by auth0 but not deleted.                   *)
(***************************************************************************)
Ordered(S) == SelectSeq([a \in 1 .. Cardinality(AkApps) |-> a], LAMBDA a : a \in S)

Page(n) ==
    LET all == Ordered(LiveKeys)
        last == IF (n + 1) * PerPage < Len(all) THEN (n + 1) * PerPage ELSE Len(all)
    IN  SubSeq(all, n * PerPage + 1, last)

TotalPages == (Cardinality(LiveKeys) + PerPage - 1) \div PerPage

Listed(r, page) ==
    SelectSeq(page, LAMBDA a : apps[a].by = akReq[r].user /\ akReq[r].project \in apps[a].projects)

\* The pages counted by the first answer, and one more, whose clients are not looked at.
ListClients(r) ==
    /\ At(r, "clear", "list") /\ provider = "auth0"
    /\ LET n == akReq[r].page
           total == IF n = 0 THEN TotalPages ELSE akReq[r].pages
       IN  \/ akReq' = IF n < total
                       THEN [akReq EXCEPT ![r].todo = @ \o Listed(r, Page(n)), ![r].page = n + 1, ![r].pages = total]
                       ELSE [akReq EXCEPT ![r].pc = "each"]
           \/ Finishes(r)
    /\ UNCHANGED <<topic, spent, provider, apps, keptTokens, invited, akNow, issued, told, unsure, crossed, wrong, akAsks>>

ListUsers(r) ==
    /\ At(r, "clear", "list") /\ provider = "gotrue"
    /\ \/ akReq' = [akReq EXCEPT ![r].todo = Listed(r, Ordered(LiveKeys)), ![r].pc = "each"]
       \/ Finishes(r)
    /\ UNCHANGED <<topic, spent, provider, apps, keptTokens, invited, akNow, issued, told, unsure, crossed, wrong, akAsks>>

\* Mutant: keys of several projects are deleted with one of them.
OfProjectAny(r, a) == TRUE

OfProject(r, a) == provider = "gotrue" \/ apps[a].projects = {akReq[r].project}

\* The listed keys one after the other; at the end none of the project's is left, if nobody else made one.
EachListed(r) ==
    /\ At(r, "clear", "each")
    /\ LET todo == akReq[r].todo
           mine == Listed(r, Ordered(LiveKeys))
       IN  IF todo = <<>>
           THEN /\ wrong' = (wrong \/ (akReq[r].quiet /\ \E i \in DOMAIN mine : apps[mine[i]].projects = {akReq[r].project}))
                /\ Finishes(r)
           ELSE /\ akReq' = [akReq EXCEPT ![r].todo = Tail(@), ![r].app = Head(todo),
                                         ![r].pc = CASE ~OfProject(r, Head(todo)) -> "each"
                                                     [] provider = "auth0" -> "owner"
                                                     [] OTHER -> "delete"]
                /\ UNCHANGED wrong
    /\ UNCHANGED <<topic, spent, provider, apps, keptTokens, invited, akNow, issued, told, unsure, crossed, akAsks>>

DeleteListedClients(r) == provider = "auth0" /\ EachListed(r)
DeleteListedUsers(r) == provider = "gotrue" /\ EachListed(r)

-----------------------------------------------------------------------------
\* A call about invitations: it may fail, before or after it had its effect.
invitationsCall(now, after, answered) == invited' \in IF answered THEN {after} ELSE {now, after}

\* Invitations are made one by one; the first that fails ends the request.
CreateInvitation(r) ==
    /\ At(r, "invite", "next")
    /\ LET todo == akReq[r].todo
       IN  IF todo = <<>>
           THEN Finishes(r) /\ UNCHANGED invited
           ELSE \E answered \in BOOLEAN :
                   /\ invitationsCall(invited, invited \cup {<<Head(todo), akReq[r].user>>}, answered)
                   /\ IF answered THEN akReq' = [akReq EXCEPT ![r].todo = Tail(@)] ELSE Finishes(r)
    /\ UNCHANGED <<topic, spent, provider, apps, keptTokens, akNow, issued, told, unsure, crossed, wrong, akAsks>>

\* A user deletes invitations of theirs.
DeleteInvitations ==
    /\ topic = "users" /\ akAsks < MaxAkAsks
    /\ \E e \in {Emails[i] : i \in DOMAIN Emails}, u \in AkUsers, answered \in BOOLEAN :
           <<e, u>> \in invited /\ invitationsCall(invited, invited \ {<<e, u>>}, answered)
    /\ akAsks' = akAsks + 1
    /\ UNCHANGED <<topic, spent, provider, apps, keptTokens, akReq, akNow, issued, told, unsure, crossed, wrong>>

\* Seconds pass; a request does not wait long to store the token it got.
AkTick ==
    /\ topic = "keys" /\ akNow < MaxAkTime
    /\ \A r \in AkReqs : At(r, "token", "keep") => akNow + TokenLife < akReq[r].ends + KeepDelay
    /\ akNow' = akNow + 1
    /\ UNCHANGED <<topic, spent, provider, apps, keptTokens, akReq, invited, issued, told, unsure, crossed, wrong, akAsks>>

AkInit ==
    /\ topic \in {"keys", "users"} /\ provider \in IF topic = "keys" THEN {"auth0", "gotrue"} ELSE {"gotrue"}
    /\ apps \in {s \in AkStart : provider = "gotrue" => \A a \in AkApps : Cardinality(s[a].projects) <= 1}
    /\ spent = {a \in AkApps : apps[a] # NoApp}
    /\ keptTokens = {} /\ invited = {} /\ issued = {} /\ unsure = {} /\ crossed = {} /\ wrong = FALSE
    /\ akReq = [r \in AkReqs |-> NoReq]
    /\ told = [a \in AkApps |-> <<apps[a].secret, apps[a].name>>]
    /\ akNow = 0 /\ akAsks = 0

AkStep(r) ==
    \/ Arrive(r)
    \/ CreateClient(r) \/ CreateGrant(r) \/ Cleanup(r) \/ SignUp(r)
    \/ validateOwnership(r) \/ deleteApplication(r) \/ DeleteClient(r) \/ DeleteUser(r) \/ RotateClient(r) \/ RotateUser(r)
    \/ UpdateClient(r) \/ ReadUpdated(r) \/ UpdateUser(r)
    \/ Lookup(r) \/ deleteApplicationMetadata(r) \/ AskAuth0(r) \/ AskGotrue(r) \/ insertApplicationMetadata(r)
    \/ ListClients(r) \/ ListUsers(r) \/ DeleteListedClients(r) \/ DeleteListedUsers(r)
    \/ CreateInvitation(r)

AkNext == (\E r \in AkReqs : AkStep(r)) \/ DeleteInvitations \/ AkTick

AkSpec == AkInit /\ [][AkNext]_akvars

-----------------------------------------------------------------------------
AkTypeOK ==
    /\ provider \in {"auth0", "gotrue"} /\ wrong \in BOOLEAN
    /\ \A a \in AkApps : apps[a].by \in AkUsers \cup {""} /\ apps[a].secret \in 0..MaxSecret /\ told[a][1] \in 0..MaxSecret
    /\ \A t \in keptTokens : t[1] \in AkApps /\ t[2] \in 1..MaxSecret
    /\ invited \subseteq {Emails[i] : i \in DOMAIN Emails} \X AkUsers

(***************************************************************************)
(* No answer was wrong: a token taken from the store was made by the       *)
(* provider for that key and secret and has not ended, even when storing   *)
(* it took a while; the deletion of a project's keys deletes no key of     *)
(* another user or of several projects, and leaves none of its own when    *)
(* no key came or went meanwhile (pages of the list included).             *)
(* (getAccessTokenUsingClientCredentialsAuth0, ListAppKeys, DeleteAppKeys.)*)
(***************************************************************************)
NoWrongAnswer == ~wrong

(***************************************************************************)
(* A secret the provider no longer takes has a token in the store only if  *)
(* a token request was under way when the key was rotated or deleted, or   *)
(* stored one after the tokens were deleted and before the provider was    *)
(* asked. (RotateAppKey, DeleteAppKey: deleteApplication comes first.)     *)
(***************************************************************************)
OldTokensCrossed ==
    \A t \in keptTokens : apps[t[1]] = NoApp \/ apps[t[1]].secret # t[2] => <<t[1], t[2]>> \in crossed

(***************************************************************************)
(* A client without a grant is there only while it is being created, or    *)
(* after a call of its creation failed; and the secret and the name a user *)
(* was told last are the key's, unless a call of theirs failed or auth0,   *)
(* asked to change the name, is still to be asked what it is.              *)
(* (CreateAppKey, RotateAppKey, UpdateAppKey.)                             *)
(***************************************************************************)
KeysAsTold ==
    \A a \in LiveKeys :
        \/ a \in unsure
        \/ /\ apps[a].granted
           /\ told[a][1] = apps[a].secret
           /\ told[a][2] = apps[a].name \/ \E r \in AkReqs : At(r, "update", "read") /\ akReq[r].app = a
        \/ ~apps[a].granted /\ \E r \in AkReqs : akReq[r].op = "create" /\ akReq[r].app = a
=============================================================================
