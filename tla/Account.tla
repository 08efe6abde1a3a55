------------------------------- MODULE Account -------------------------------
(***************************************************************************)
(* Logging in: SplashActivity.java, LoginActivity.java with                *)
(* LoginService.java, MainActivity.java as far as it comes and goes, and   *)
(* the file in which Sputil.java keeps preferences.                        *)
(*                                                                         *)
(* The main thread runs every callback whole; the server answers requests  *)
(* in any order.  A process that dies takes everything with it but the     *)
(* file, which has what was committed.  The pages that are opened over the *)
(* main page or a login page, the registration among them, and the turning *)
(* of a login page with the screen are left out.                           *)
(***************************************************************************)
EXTENDS Naturals, Sequences

CONSTANTS
    Users,       \* the password of a user is the user
    MaxLogins,   \* bound: login pages of a process
    MaxClicks,   \* bound: clicks on the login button in a process
    MaxMains,    \* bound: starts of the service by a process
    MaxDeaths    \* bound: how often the process dies

None   == "none"     \* a text that is empty, a key the file does not have
Logins == 1..MaxLogins

ASSUME UsersAssumption == None \notin Users

Splash   == <<"splash">>
Main     == <<"main">>
Login(l) == <<"login", l>>

VARIABLES
    prefs,         \* the preference file
    stack,         \* the activities, the one in front last
    logins,        \* the number of login pages made
    entered,       \* wyt_account and wyt_pwd of each login page
    dialog,        \* the login pages whose dialog is shown
    clicks,        \* the number of clicks on a login button
    posts,         \* the logins that wait for an answer
    dismissals,    \* login pages with a DISMISS message under way
    launches,      \* main pages in the stack that are not created yet
    serviceStarts, \* the number of startService and of restarts by the system
    deaths,        \* how often the process died
    accepted,      \* history: the users whose login the server accepted
    torn,          \* history: the last login the file heard of had one of its commits made
    reused,        \* history: login pages that were used while one of their logins waited
    unsent,        \* history: what the file has is, in part, of such a page
    strays         \* history: the logins that were accepted when their page was finished or left

pageVars    == <<stack, logins, entered, dialog, clicks, posts, dismissals, launches>>
historyVars == <<accepted, torn, reused, unsent, strays>>
accountVars == <<prefs, pageVars, serviceStarts, deaths, historyVars>>

Empty == [username |-> None, password |-> None, first |-> TRUE]

AccountInit ==
    /\ prefs = Empty
    /\ stack = <<>> /\ logins = 0 /\ entered = [l \in Logins |-> <<None, None>>]
    /\ dialog = {} /\ clicks = 0 /\ posts = {} /\ dismissals = {}
    /\ launches = 0 /\ serviceStarts = 0 /\ deaths = 0
    /\ accepted = {} /\ torn = FALSE /\ reused = {} /\ unsent = FALSE /\ strays = 0

InFront(page) == stack # <<>> /\ stack[Len(stack)] = page
Places(page)  == {i \in 1..Len(stack) : stack[i] = page}

(* finish() of a page that may have been left before. *)
Finished(page) ==
    LET place == CHOOSE i \in Places(page) : TRUE
    IN  IF Places(page) = {} THEN stack
        ELSE SubSeq(stack, 1, place - 1) \o SubSeq(stack, place + 1, Len(stack))

-----------------------------------------------------------------------------
(* The launcher; a page that is there already only comes to the front. *)
Launch ==
    /\ stack = <<>>
    /\ stack' = <<Splash>>
    /\ UNCHANGED <<prefs, logins, entered, dialog, clicks, posts, dismissals, launches,
                   serviceStarts, deaths, historyVars>>

(* HANDLER_SPLASH: whatever isFirst() says, a login page comes next. *)
HandleSplash ==
    /\ InFront(Splash) /\ logins < MaxLogins
    /\ prefs' = [prefs EXCEPT !.first = FALSE]
    /\ logins' = logins + 1
    /\ stack' = Append(Finished(Splash), Login(logins'))
    /\ UNCHANGED <<entered, dialog, clicks, posts, dismissals, launches, serviceStarts, deaths, historyVars>>

-----------------------------------------------------------------------------
(* A login page.  initView fills it with what the file has. *)
Remembered == <<prefs.username, prefs.password>>

(* onClick: the fields are written before they are looked at. *)
ClickLogin(l, entry) ==
    /\ InFront(Login(l)) /\ l \notin dialog
    /\ clicks < MaxClicks
    /\ clicks' = clicks + 1
    /\ entered' = [entered EXCEPT ![l] = entry]
    /\ reused' = IF \E p \in posts : p.login = l THEN reused \cup {l} ELSE reused
    /\ IF None \in {entry[1], entry[2]}
       THEN UNCHANGED <<dialog, posts>>
       ELSE /\ dialog' = dialog \cup {l}
            /\ posts' = posts \cup {[id |-> clicks', login |-> l, entry |-> entry]}
    /\ UNCHANGED <<prefs, stack, logins, dismissals, launches, serviceStarts, deaths, accepted, torn,
                   unsent, strays>>

(* The dialog may be cancelled; the login goes on. *)
CancelDialog(l) ==
    /\ InFront(Login(l)) /\ l \in dialog
    /\ dialog' = dialog \ {l}
    /\ UNCHANGED <<prefs, stack, logins, entered, clicks, posts, dismissals, launches,
                   serviceStarts, deaths, historyVars>>

LeaveLogin(l) ==
    /\ InFront(Login(l)) /\ l \notin dialog
    /\ stack' = Finished(Login(l))
    /\ UNCHANGED <<prefs, logins, entered, dialog, clicks, posts, dismissals, launches,
                   serviceStarts, deaths, historyVars>>

DismissDialog(l) ==
    /\ l \in dismissals
    /\ dismissals' = dismissals \ {l}
    /\ dialog' = dialog \ {l}
    /\ UNCHANGED <<prefs, stack, logins, entered, clicks, posts, launches, serviceStarts, deaths,
                   historyVars>>

-----------------------------------------------------------------------------
(* The server gives a status, or the call ends with an error; an answer    *)
(* without one of the two statuses is possible at any time.                *)
Accepted(entry) == entry[1] = entry[2]
Answers(entry)  == {IF Accepted(entry) THEN "1" ELSE "0", "other", "error"}

(* Mutant: every status but 0. *)
SucceedsUnlessZero(answer) == answer \in {"1", "other"}

Succeeds(answer) == answer = "1"
Fails(answer)    == answer \in {"0", "error"}

Saved(l) == [prefs EXCEPT !.username = entered[l][1], !.password = entered[l][2]]

(* Mutant: no finish(). *)
StackAfterSuccessUnfinished(l) == Append(stack, Main)

(* The system has the main page in the stack before it is created. *)
StackAfterSuccess(l) == Append(Finished(Login(l)), Main)

(* onSuccess, the box for the password ticked or not. *)
onSuccess(l) ==
    /\ \/ prefs' = Saved(l) /\ unsent' = (l \in reused)
       \/ prefs' = Empty /\ unsent' = FALSE
    /\ torn' = FALSE
    /\ strays' = strays + (IF Places(Login(l)) = {} THEN 1 ELSE 0)
    /\ launches' = launches + 1
    /\ dismissals' = dismissals \cup {l}
    /\ stack' = StackAfterSuccess(l)

onFail(l) ==
    /\ dismissals' = dismissals \cup {l}
    /\ UNCHANGED <<prefs, torn, unsent, strays, launches, stack>>

onResponse(p) ==
    /\ posts' = posts \ {p}
    /\ \E answer \in Answers(p.entry) :
         /\ accepted' = IF answer = "1" THEN accepted \cup {p.entry[1]} ELSE accepted
         /\ \/ Succeeds(answer) /\ onSuccess(p.login)
            \/ Fails(answer) /\ onFail(p.login)
            \/ ~ Succeeds(answer) /\ ~ Fails(answer)
               /\ UNCHANGED <<prefs, torn, unsent, strays, launches, dismissals, stack>>
    /\ UNCHANGED <<logins, entered, dialog, clicks, serviceStarts, deaths, reused>>

-----------------------------------------------------------------------------
(* The main page: onCreate starts the service. *)
CreateMain ==
    /\ launches > 0 /\ serviceStarts < MaxMains
    /\ launches' = launches - 1
    /\ serviceStarts' = serviceStarts + 1
    /\ UNCHANGED <<prefs, stack, logins, entered, dialog, clicks, posts, dismissals, deaths, historyVars>>

(* The screen is turned: the page is made again. *)
RecreateMain ==
    /\ InFront(Main) /\ launches = 0 /\ serviceStarts < MaxMains
    /\ serviceStarts' = serviceStarts + 1
    /\ UNCHANGED <<prefs, pageVars, deaths, historyVars>>

(* Out of the drawer; the service goes on. *)
Logout ==
    /\ InFront(Main) /\ launches = 0 /\ logins < MaxLogins
    /\ logins' = logins + 1
    /\ stack' = Append(SubSeq(stack, 1, Len(stack) - 1), Login(logins'))
    /\ UNCHANGED <<prefs, entered, dialog, clicks, posts, dismissals, launches, serviceStarts, deaths,
                   historyVars>>

-----------------------------------------------------------------------------
(* The process dies: it is killed, it crashes, or the main page is left    *)
(* with the back key, which calls System.exit.  Sputil commits each key of *)
(* a login by itself, and the process may die between the two.  A service  *)
(* that was started is started again.                                      *)
Dies ==
    /\ deaths < MaxDeaths /\ deaths' = deaths + 1
    /\ stack' = <<>> /\ logins' = 0 /\ entered' = [l \in Logins |-> <<None, None>>]
    /\ dialog' = {} /\ clicks' = 0 /\ posts' = {} /\ dismissals' = {} /\ launches' = 0
    /\ serviceStarts' = IF serviceStarts > 0 THEN 1 ELSE 0
    /\ reused' = {} /\ strays' = 0
    /\ \/ UNCHANGED <<prefs, accepted, torn, unsent>>
       \/ \E p \in posts :
            /\ Accepted(p.entry)
            /\ prefs' = [prefs EXCEPT !.username = entered[p.login][1]]
            /\ accepted' = accepted \cup {p.entry[1]}
            /\ torn' = TRUE
            /\ unsent' = (unsent \/ p.login \in reused)

AccountNext ==
    \/ Launch \/ HandleSplash
    \/ \E l \in Logins :
         \/ \E entry \in Users \X (Users \cup {None}) : ClickLogin(l, entry)
         \/ CancelDialog(l) \/ LeaveLogin(l) \/ DismissDialog(l)
    \/ \E p \in posts : onResponse(p)
    \/ CreateMain \/ RecreateMain \/ Logout
    \/ Dies

AccountSpec == AccountInit /\ [][AccountNext]_accountVars

-----------------------------------------------------------------------------
(* Properties. *)

(* The name and the password that a login page is filled with are each of  *)
(* a user whose login the server accepted, whatever logins failed since    *)
(* and wherever the process died, between the two commits too; and both    *)
(* are of one login, unless it died there and nobody logged in since.  Not *)
(* so after a success for a page that was used again while its login       *)
(* waited: it saves the fields of the page, which are not those that were  *)
(* sent, until the next success for a page that was not.                   *)
SavedWereAccepted ==
    ~ unsent =>
        /\ {prefs.username, prefs.password} \subseteq accepted \cup {None}
        /\ torn \/ prefs.username = prefs.password

(* Pages do not pile up: a page is finished by the one that comes after    *)
(* it, so that the main page is the only one there is, and nobody logs in  *)
(* behind it.  What may be there besides came with a success for a login   *)
(* page that was finished or left before, one page for each of them.       *)
PagesDoNotPileUp == Len(stack) <= 1 + strays
==============================================================================
