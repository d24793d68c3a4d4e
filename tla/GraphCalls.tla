----------------------------- MODULE GraphCalls -----------------------------
(***************************************************************************)
(* The requests that each operation of the Microsoft 365 services makes    *)
(* (graph/*.service.ts), in the order it awaits them, as data for          *)
(* OfficeActions.  What a request carries is left out: a call says only    *)
(* how often graph/client.ts may send it and what it changes.              *)
(*   method, retry   the options that decide whether it is sent again      *)
(*   pages           how many pages `collect' may follow: 1, or 2 for more *)
(*   body            whether the program reads the body of the answer      *)
(*   effect          what an accepted request changes in Microsoft 365     *)
(*   need            "sometimes": made only for some arguments;            *)
(*                   "spared": its failure is caught and ignored           *)
(***************************************************************************)
EXTENDS Naturals, Sequences

Effects == {"none", "change", "send", "attendees"}

Call == [method : {"GET", "POST", "PATCH", "DELETE"},
         retry  : {"default", "safe", "never"},
         pages  : {1, 2},
         body   : BOOLEAN,
         effect : Effects,
         need   : {"always", "sometimes", "spared"}]

\* Mutation: every call is sent up to three times.
AttemptsForAll(call) == 3

\* How often `request' may send one call.
MaxAttempts(call) ==
    IF call.retry = "safe" \/ (call.retry # "never" /\ call.method = "GET")
    THEN 3 ELSE 1

Request(method, effect) ==
    [method |-> method, retry |-> "default", pages |-> 1, body |-> TRUE,
     effect |-> effect, need |-> "always"]

Get       == Request("GET", "none")
Collect   == [Get EXCEPT !.pages = 2]             \* `collect' of several pages
Query     == [Request("POST", "none") EXCEPT !.retry = "safe"]
Content   == [Get EXCEPT !.retry = "never"]       \* `requestBytes'
Post      == Request("POST", "change")
Patch     == Request("PATCH", "change")
Accepted(call) == [call EXCEPT !.body = FALSE]    \* answered 202 or 204
NoRetry(call)  == [call EXCEPT !.retry = "never"]

WithNeed(calls, need) ==
    [i \in DOMAIN calls |-> [calls[i] EXCEPT !.need = need]]
Sometimes(calls) == WithNeed(calls, "sometimes")
Spared(calls)    == WithNeed(calls, "spared")

-----------------------------------------------------------------------------
(* Mail.                                                                   *)

MailList            == <<Collect>>
MailSearch          == <<Get>>
MailGet             == <<Get>>
MailGetMany         == <<[Query EXCEPT !.pages = 2]>>   \* a batch for every twenty
MailListAttachments == <<Collect>>
MailAttachmentBytes == <<Get, Content>>
MailThread          == <<Get>>
MailListFolders     == <<Collect>>
MailGetFolder       == <<Get>>
MailCreateDraft     == <<Post>>
MailSend            == <<Accepted(Request("POST", "send"))>>
MailSendDraft       == <<Accepted(Request("POST", "send"))>>
MailBuildReplyDraft == <<NoRetry(Post), NoRetry(Patch)>>
MailReply           == MailBuildReplyDraft \o MailSendDraft
MailForward         == <<NoRetry(Post), NoRetry(Patch)>> \o MailSendDraft
MailSetRead         == <<Patch>>
MailSetFlag         == <<Patch>>
MailMove            == <<Post>>
MailDelete          == <<Accepted(Request("DELETE", "change"))>>

-----------------------------------------------------------------------------
(* Calendar.                                                               *)

CalendarList        == <<Collect>>
CalendarSearch      == <<Collect>>
CalendarGetSchedule == <<Query>>
CalendarCreate      == <<Post>>
CalendarGet         == <<Get>>
CalendarUpdate      == <<Request("PATCH", "attendees")>>
CalendarDelete      == <<Accepted(Request("DELETE", "change"))>>
CalendarRespond     == <<Accepted(Post)>>

-----------------------------------------------------------------------------
(* Contacts, people, tasks and the user.                                   *)

ContactsList   == <<Collect>>
ContactsGet    == <<Get>>
ContactsCreate == <<Post>>
ContactsUpdate == <<Patch>>
ContactsDelete == <<Accepted(Request("DELETE", "change"))>>
PeopleList     == <<Get>>

TasksLists  == <<Collect>>
TasksList   == <<Collect>>
TasksGet    == <<Get>>
TasksCreate == <<Post>>
TasksUpdate == <<Patch>>
TasksDelete == <<Accepted(Request("DELETE", "change"))>>

UserGetProfile      == <<Get>>
UserGetSettings     == <<Get>>
UserUpdateSettings  == <<Patch>>
UserSearchDirectory == <<Get>>
\* The whole directory is listed only when the search finds nobody.
UserSearchOrganisation == UserSearchDirectory \o Sometimes(<<Collect>>)

-----------------------------------------------------------------------------
(* Files and Teams.                                                        *)

FilesListOneDrive   == <<Collect>>
FilesSearchOneDrive == <<Collect>>
FilesSearchSites    == <<Get>>
FilesListSiteFiles  == <<Collect>>
FilesBytes          == <<Get, Content>>

TeamsListJoined   == <<Collect>>
TeamsListChannels == <<Collect>>
TeamsListMessages == <<Collect>>
=============================================================================
