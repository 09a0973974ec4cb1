---- MODULE MCWorkspaces ----
EXTENDS Workspaces
CONSTANTS ann, bob
MCSubjects == {ann, bob}
MCOverrides == {{}, {<<"members.manage", "deny">>}}
MCWorkloads == {{"permit", "add", "remove"},
                {"add", "invite", "inviteSubject", "accept", "delete"},
                {"save", "delete", "deleteRun"}}
====
