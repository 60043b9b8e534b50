---------------------------- MODULE StartupPlan ----------------------------
(* The ensure_* steps of main.lifespan as units, in their order.  A unit is passed over *)
(* when one of the objects in unless is there, else its statements make objects, one    *)
(* after the other.                                                                     *)
EXTENDS Naturals, Sequences, FiniteSets

\* Of the indexes of a table one stands for all, and so does one of the columns that a step
\* adds, each after a look of its own.
Unit(unless, makes) == [unless |-> unless, makes |-> makes]
Missing(object) == Unit({object}, <<object>>)
Table(table) == Unit({table}, <<table>>)
Indexed(table, index) == Unit({table}, <<table, index>>)

\* The user's role is made with it; a start that finds the user looks for the role.
Bootstrap == <<Missing("bootstrap organization"),
               Unit({"super admin"}, <<"super admin", "super admin role">>),
               Missing("super admin role")>>
AccountSchema == <<Missing("widget_features")>>
AuditSchema == <<Indexed("audit_logs", "idx_audit_created")>>
AccountUpdatesSchema == <<Indexed("account_updates", "idx_account_updates_lookup")>>

\* trainees stands for the UPDATE that every start runs.
AuthSchema ==
  <<Missing("is_trainee"), Unit({}, <<"trainees">>),
    Indexed("email_otps", "idx_email_otps_lookup"), Table("auth_audit_logs")>>
ChatSchema == <<Missing("active_queues")>>
AgentQueueAccessSchema == <<Indexed("agent_queue_access", "idx_agent_queue_user")>>
AiRequestSchema ==
  <<Missing("source"), Unit({"created_at"}, <<"created_at", "created_at default">>)>>
HttpRequestLogSchema == <<Indexed("http_request_logs", "idx_http_logs_created")>>
RagRetrievalSchema == <<Indexed("rag_retrievals", "idx_rag_created")>>
ErrorLogSchema == <<Indexed("error_logs", "idx_error_logs_created")>>
LlmConfigSchema == <<Missing("model_comment")>>

\* Of the seeds, one role and one account: of the pages of the role that are there by
\* default one, agents, is also looked for by itself.
RoleNavPermissionsSchema ==
  <<Indexed("role_nav_permissions", "idx_role_nav_role"),
    Unit({"agents", "chat"}, <<"agents", "chat">>), Missing("agents"), Missing("widget-download"),
    Indexed("account_role_nav_permissions", "idx_acct_role_nav_account"),
    Unit({"account agents", "account chat"}, <<"account agents", "account chat">>),
    Indexed("user_nav_permissions", "idx_user_nav_user")>>
SystemPromptStorage == <<Table("system_prompt"), Missing("prompt")>>

Plan == Bootstrap \o AccountSchema \o AuditSchema \o AccountUpdatesSchema \o AuthSchema \o ChatSchema
        \o AgentQueueAccessSchema \o AiRequestSchema \o HttpRequestLogSchema \o RagRetrievalSchema
        \o ErrorLogSchema \o LlmConfigSchema \o RoleNavPermissionsSchema \o SystemPromptStorage

\* A step is of one or two statements; one that looks for one object makes that object, and the
\* UPDATE is nobody's object.
ASSUME LooksForWhatItMakes ==
  /\ Plan \in Seq([unless : SUBSET STRING, makes : Seq(STRING)]) /\ Plan # <<>>
  /\ \A i \in DOMAIN Plan :
       /\ Len(Plan[i].makes) \in 1 .. 2
       /\ Cardinality(Plan[i].unless) = 1 =>
            \E k \in DOMAIN Plan[i].makes :
              Plan[i].unless = {Plan[i].makes[k]} /\ Plan[i].makes[k] # "trainees"
=============================================================================
