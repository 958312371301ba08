------------------------------ MODULE ProjectRow ------------------------------
(***************************************************************************)
(* The row of one Project in the Supabase table `projects`, and the        *)
(* statements SupabaseProjectStore runs against it                         *)
(* (src/langalpha/projects/store.py).  A statement is split in its WHERE   *)
(* clause, a predicate on the row, and its SET clause, a function of the   *)
(* row: callers decide in which step each one is evaluated.                *)
(***************************************************************************)
CONSTANTS Sandboxes,  \* identities Daytona may hand out
          NoSandbox   \* projects.sandbox_id is null

ASSUME NoSandboxAssumption == NoSandbox \notin Sandboxes

Status == {"active", "deleting", "deleted"}

MaybeSandbox == Sandboxes \cup {NoSandbox}

Rows == [status : Status, sandbox : MaybeSandbox]

NewProject == [status |-> "active", sandbox |-> NoSandbox]

----------------------------------------------------------------------------
(* WHERE clauses.                                                          *)

(* get_project, _update: `.neq("status", "deleted")`.                      *)
Visible(row) == row.status # "deleted"

(* bind_sandbox: `.is_("sandbox_id", "null")`, with no filter on status.   *)
Unbound(row) == row.sandbox = NoSandbox

BindOverAnything(row) == TRUE
BindMatches(row) == Unbound(row)

(* replace_sandbox: the binding the caller found missing, of an active     *)
(* project.                                                                *)
ReplaceIgnoringStatus(row, expected) == row.sandbox = expected
ReplaceMatches(row, expected) ==
    /\ row.status = "active"
    /\ row.sandbox = expected

----------------------------------------------------------------------------
(* SET clauses.                                                            *)

WithSandbox(row, s) == [row EXCEPT !.sandbox = s]

MarkDeleting(row) == [row EXCEPT !.status = "deleting"]

Tombstone(row) == [status |-> "deleted", sandbox |-> NoSandbox]
=============================================================================
