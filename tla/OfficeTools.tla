---------------------------- MODULE OfficeTools ----------------------------
(***************************************************************************)
(* The tools the model may call (agent/tools/{mail,office,expansion}.tools *)
(* .ts), each as the Graph calls of its preview and of its execution.  A   *)
(* read runs at once; a change is previewed, approved and then executed.   *)
(* Promise.all of two lists is put in one order: they do not interact.     *)
(***************************************************************************)
EXTENDS GraphCalls

NoChange == [add |-> {}, remove |-> {}]

ReadTool(calls) ==
    [asks |-> FALSE, preview |-> <<>>, execute |-> calls, change |-> NoChange]
ActionTool(preview, calls) ==
    [asks |-> TRUE, preview |-> preview, execute |-> calls, change |-> NoChange]

-----------------------------------------------------------------------------
(* Reading mail.                                                           *)

mail_needs_attention == ReadTool(Spared(MailList) \o MailList)
mail_follow_ups      == ReadTool(MailList \o MailList)
mail_search          == ReadTool(MailSearch)
mail_read            == ReadTool(Sometimes(MailSearch) \o MailGet \o Spared(MailThread))
mail_recent          == ReadTool(MailList)
mail_inbox_summary   == ReadTool(MailList \o MailGetMany)
mail_list_folders    == ReadTool(MailListFolders)
mail_list_attachments == ReadTool(MailListAttachments)
mail_read_attachment_text == ReadTool(MailAttachmentBytes)

(* Changing mail.                                                          *)

mail_create_draft       == ActionTool(<<>>, MailCreateDraft)
mail_create_reply_draft == ActionTool(MailGet, MailBuildReplyDraft)
mail_send         == ActionTool(<<>>, MailSend)
mail_reply        == ActionTool(MailGet, MailReply)
mail_forward      == ActionTool(MailGet, MailForward)
mail_send_draft   == ActionTool(MailGet, MailSendDraft)
mail_change_state == ActionTool(MailGet, MailSetRead)   \* or MailSetFlag, alike
mail_move         == ActionTool(MailGet \o Sometimes(MailGetFolder), MailMove)
mail_delete       == ActionTool(MailGet, MailDelete)

-----------------------------------------------------------------------------
(* The mailbox and the calendar.                                           *)

mailbox_settings_read   == ReadTool(UserGetSettings)
mailbox_settings_update == ActionTool(<<>>, UserUpdateSettings)

calendar_list       == ReadTool(CalendarList)
calendar_upcoming   == ReadTool(CalendarList)
calendar_search     == ReadTool(CalendarSearch)
calendar_find_slots == ReadTool(UserGetSettings \o CalendarGetSchedule)
calendar_create     == ActionTool(CalendarList, CalendarCreate)
calendar_update(change) ==
    [ActionTool(CalendarGet \o Sometimes(CalendarList), CalendarGet \o CalendarUpdate)
        EXCEPT !.change = change]
calendar_delete     == ActionTool(CalendarGet, CalendarDelete)
calendar_respond    == ActionTool(CalendarGet, CalendarRespond)

-----------------------------------------------------------------------------
(* People, tasks, files and Teams.                                         *)

profile_read     == ReadTool(UserGetProfile)
contacts_search  == ReadTool(ContactsList)
people_search    == ReadTool(PeopleList)
directory_search == ReadTool(UserSearchOrganisation)
contact_create   == ActionTool(<<>>, ContactsCreate)
contact_update   == ActionTool(ContactsGet, ContactsUpdate)
contact_delete   == ActionTool(ContactsGet, ContactsDelete)

task_lists  == ReadTool(TasksLists)
tasks_list  == ReadTool(TasksList)
task_create == ActionTool(<<>>, TasksCreate)
task_update == ActionTool(TasksGet, TasksUpdate)
task_delete == ActionTool(TasksGet, TasksDelete)

teams_list          == ReadTool(TeamsListJoined)
teams_channels == ReadTool(TeamsListChannels)
teams_channel_messages == ReadTool(TeamsListMessages)
onedrive_list       == ReadTool(FilesListOneDrive)
onedrive_search     == ReadTool(FilesSearchOneDrive)
sharepoint_sites_search == ReadTool(FilesSearchSites)
sharepoint_files   == ReadTool(FilesListSiteFiles)
read_text               == ReadTool(FilesBytes)   \* of OneDrive and of SharePoint

-----------------------------------------------------------------------------
\* The table registry.ts looks tools up in, for the attendee changes given.
AllTools(changes) ==
    {mail_needs_attention, mail_follow_ups, mail_search, mail_read, mail_recent,
     mail_inbox_summary, mail_list_folders, mail_list_attachments,
     mail_read_attachment_text, mail_create_draft, mail_create_reply_draft,
     mail_send, mail_reply, mail_forward, mail_send_draft, mail_change_state,
     mail_move, mail_delete, mailbox_settings_read, mailbox_settings_update,
     calendar_list, calendar_upcoming, calendar_search, calendar_find_slots,
     calendar_create, calendar_delete, calendar_respond, profile_read,
     contacts_search, people_search, directory_search, contact_create,
     contact_update, contact_delete, task_lists, tasks_list, task_create,
     task_update, task_delete, teams_list, teams_channels,
     teams_channel_messages, onedrive_list, onedrive_search,
     sharepoint_sites_search, sharepoint_files, read_text}
    \cup {calendar_update(change) : change \in changes}
=============================================================================
