---------------------------- MODULE FileCommands ----------------------------
(* globus transfer, delete, rm, mkdir, rename, stat, ls and globus task        *)
EXTENDS Scripts

\* The SDK fetches a submission ID when the user gave none.
Submit(call) ==
    Either(SubmitWithId(call),
        Script(<<Read("transfer", "get_submission_id"), Write("transfer", call)>>))

\* --dry-run shows the document and stops.
DryRunOr(submission) == Either(Show, submission)

\* Lines of --batch, or the paths of the command line, one of which may be
\* missing.
transfer_items == Either(Batch, Reject)

\* --recursive and --external-checksum do not go with --batch, nor
\* --no-recursive with --delete; --include and --exclude need --recursive.
transfer ==
    Command("transfer",
        <<Reject, Using("transfer"), Reject, transfer_items, Reject,
          DryRunOr(Script(<<Submit("submit_transfer"), Show>>))>>)

\* "Are you sure you want to delete all files matching ...?"  No.
Declined == Exit("failure")

delete ==
    Command("delete",
        <<Using("transfer"),
          Either(Declined,
              Script(<<Either(Batch, Reject),
                       DryRunOr(Script(<<Submit("submit_delete"), Show>>))>>))>>)

\* transfer_task_wait_with_io polls as TaskWait says; then the task is shown,
\* unless the format is text, and the status says how it ended.
WaitForTask ==
    Script(<<Read("transfer", "task_wait"), Read("transfer", "get_task"), ShowSilent,
             Exit("success") \union Exit("failure") \union Exit("timeout")>>)

\* The submission is announced on stderr.
rm ==
    Command("rm",
        <<Using("transfer"),
          Either(Declined, DryRunOr(Script(<<Submit("submit_delete"), WaitForTask>>)))>>)

mkdir ==
    Command("mkdir", <<Using("transfer"), Write("transfer", "operation_mkdir"), Show>>)

rename ==
    Command("rename", <<Using("transfer"), Write("transfer", "operation_rename"), Show>>)

\* That nothing is found is shown like an answer.
stat == Command("stat", <<Using("transfer"), Read("transfer", "operation_stat"), Show>>)

\* --recursive lists directories while the output is produced (RecursiveLs).
ls ==
    Command("ls",
        <<Reject, Using("transfer"), Reject,
          UpTo(1, Read("transfer", "operation_ls")), Show>>)

\* --all: each task is cancelled while the output is produced; in text a line
\* follows each cancellation, other formats show one document at the end.
CancelListed(n) ==
    Script([i \in 1 .. 2 * n |->
        IF i % 2 = 1 THEN Write("transfer", "cancel_task") ELSE EchoText])

task_cancel ==
    Command("task cancel",
        <<Login({"transfer"}), Reject, Client("transfer"),
          Either(Script(<<Pages("transfer", "task_list"), Fail,
                          CancelListed(1) \union CancelListed(2), ShowSilent>>),
                 Script(<<Write("transfer", "cancel_task"), Show>>))>>)

task_event_list ==
    Command("task event-list",
        <<Using("transfer"), Reject, Paging("transfer", "task_event_list"), Show>>)

task_generate_submission_id ==
    Command("task generate-submission-id",
        <<Using("transfer"), Read("transfer", "get_submission_id"), Show>>)

task_list ==
    Command("task list", <<Using("transfer"), Paging("transfer", "task_list"), Show>>)

task_pause_info ==
    Command("task pause-info",
        <<Using("transfer"), Read("transfer", "task_pause_info"), Show>>)

\* --successful-transfers and --skipped-errors are read page by page.
task_show ==
    Command("task show",
        <<Reject, Using("transfer"),
          Either(Pages("transfer", "task_successful_transfers"),
                 Read("transfer", "get_task")), Show>>)

task_update ==
    Command("task update", <<Using("transfer"), Write("transfer", "update_task"), Show>>)

task_wait == Command("task wait", <<Using("transfer"), WaitForTask>>)

FileCatalog ==
    {transfer, delete, rm, mkdir, rename, stat, ls, task_cancel, task_event_list,
     task_generate_submission_id, task_list, task_pause_info, task_show, task_update,
     task_wait}
==============================================================================
