------------------------------ MODULE Migrations ------------------------------
(***************************************************************************)
(* The history of src/app/alembic/versions: which revision follows which,  *)
(* what each does to a schema, and the schemas it leads to. A history has  *)
(* branches; the version table then holds one row per branch.              *)
(***************************************************************************)
EXTENDS ProductMigrations, AlumniMigrations

\* Every revision, each after the revisions it follows.
History ==
  << "e241", "9c0a", "d98d", "1a31", "add_rbac_tables", "drop_item_table",
     "add_ai_chat_001", "add_dashboard_models", "f966", "8825", "add_enhanced_projects",
     "add_user_settings_fields", "9351", "add_tag_number_to_user", "b695",
     "add_copilot_hub_tables", "merge_tag_and_copilot", "add_notifications_v2", "dcca",
     "b066", "add_timezone_user", "8a96", "9b12", "8376", "b29c", "0cd2", "15ac", "f96d",
     "add_org_id_to_role", "refactor_wallet", "fix_credit_transfer_cascade", "2cb8", "32e6",
     "ff95", "3f33", "eb29", "6e60", "7f80", "f4b8f2", "f4b8f3", "0121", "a53f", "a2d1",
     "a24b", "36eb", "ab55", "1eff", "2ff9", "2563", "14f7", "dc33", "070c", "a1b2", "a828"
     >>

Revisions == {History[i] : i \in DOMAIN History}
Latest    == "a828"

Before(r) == {History[i] : i \in {j \in 1..(Len(History) - 1) : History[j + 1] = r}}

\* `down_revision`: most often the revision before it in History
Parents ==
  [r \in Revisions |->
     CASE r = "e241"                   -> {}
       [] r = "add_dashboard_models"   -> {"drop_item_table"}
       [] r = "f966"                   -> {"add_ai_chat_001", "add_dashboard_models"}
       [] r = "add_tag_number_to_user" -> {"add_user_settings_fields"}
       [] r = "b695"                   -> {"9351"}
       [] r = "merge_tag_and_copilot"  -> {"add_tag_number_to_user", "add_copilot_hub_tables"}
       [] r = "f4b8f2"                 -> {"6e60"}
       [] r = "0121"                   -> {"7f80", "f4b8f3"}
       [] r = "a1b2"                   -> {"0121"}
       [] r = "a828"                   -> {"070c", "a1b2"}
       [] OTHER                        -> Before(r)]

Children(r) == {c \in Revisions : r \in Parents[c]}

\* A revision and all that precede it.
Joined(earlier, r) ==
  [x \in {r} \cup DOMAIN earlier |->
     IF x = r THEN {r} \cup UNION {earlier[p] : p \in Parents[r]} ELSE earlier[x]]

Lineage ==
  LET upTo[i \in 0..Len(History)] ==
        IF i = 0 THEN [r \in {} |-> {}] ELSE Joined(upTo[i - 1], History[i])
  IN  upTo[Len(History)]

\* What has been applied to a database whose version table holds the rows `recorded`. A row that
\* names no revision of this history says nothing.
Applied(recorded) == UNION {Lineage[r] : r \in recorded \cap Revisions}

\* The version table after revision r is applied.
Recording(recorded, r) == (recorded \ Parents[r]) \cup {r}

-----------------------------------------------------------------------------
UpgradeOf(r, S) ==
  CASE r = "e241"                        -> Up_e241
    [] r = "9c0a"                        -> Up_9c0a
    [] r = "d98d"                        -> Up_d98d
    [] r = "1a31"                        -> Up_1a31
    [] r = "add_rbac_tables"             -> Up_add_rbac_tables
    [] r = "drop_item_table"             -> Up_drop_item_table
    [] r = "add_ai_chat_001"             -> Up_add_ai_chat_001
    [] r = "add_dashboard_models"        -> Up_add_dashboard_models
    [] r = "8825"                        -> Up_8825
    [] r = "add_enhanced_projects"       -> Up_add_enhanced_projects
    [] r = "add_user_settings_fields"    -> Up_add_user_settings_fields
    [] r = "9351"                        -> Up_9351
    [] r = "add_tag_number_to_user"      -> Up_add_tag_number_to_user
    [] r = "b695"                        -> Up_b695
    [] r = "add_notifications_v2"        -> Up_add_notifications_v2
    [] r = "dcca"                        -> Up_dcca
    [] r = "b066"                        -> Up_b066(S)
    [] r = "add_timezone_user"           -> Up_add_timezone_user
    [] r = "8a96"                        -> Up_8a96
    [] r = "9b12"                        -> Up_9b12
    [] r = "8376"                        -> Up_8376
    [] r = "b29c"                        -> Up_b29c
    [] r = "0cd2"                        -> Up_0cd2
    [] r = "15ac"                        -> Up_15ac
    [] r = "f96d"                        -> Up_f96d
    [] r = "add_org_id_to_role"          -> Up_add_org_id_to_role
    [] r = "refactor_wallet"             -> Up_refactor_wallet
    [] r = "fix_credit_transfer_cascade" -> Up_fix_credit_transfer_cascade(S)
    [] r = "2cb8"                        -> Up_2cb8
    [] r = "ff95"                        -> Up_ff95(S)
    [] r = "3f33"                        -> Up_3f33(S)
    [] r = "eb29"                        -> Up_eb29
    [] r = "6e60"                        -> Up_6e60(S)
    [] r = "7f80"                        -> Up_7f80
    [] r = "f4b8f2"                      -> Up_f4b8f2(S)
    [] r = "f4b8f3"                      -> Up_f4b8f3(S)
    [] r = "a53f"                        -> Up_a53f
    [] r = "a2d1"                        -> Up_a2d1
    [] r = "36eb"                        -> Up_36eb
    [] r = "ab55"                        -> Up_ab55
    [] r = "1eff"                        -> Up_1eff
    [] r = "2ff9"                        -> Up_2ff9
    [] r = "2563"                        -> Up_2563
    [] r = "dc33"                        -> Up_dc33
    [] r = "070c"                        -> Up_070c
    [] r = "a1b2"                        -> Up_a1b2
    [] OTHER                             -> <<>>

DowngradeOf(r, S) ==
  CASE r = "e241"                        -> Down_e241
    [] r = "9c0a"                        -> Down_9c0a
    [] r = "d98d"                        -> Down_d98d
    [] r = "1a31"                        -> Down_1a31
    [] r = "add_rbac_tables"             -> Down_add_rbac_tables
    [] r = "drop_item_table"             -> Down_drop_item_table
    [] r = "add_ai_chat_001"             -> Down_add_ai_chat_001
    [] r = "add_dashboard_models"        -> Down_add_dashboard_models
    [] r = "8825"                        -> Down_8825
    [] r = "add_enhanced_projects"       -> Down_add_enhanced_projects
    [] r = "add_user_settings_fields"    -> Down_add_user_settings_fields
    [] r = "9351"                        -> Down_9351
    [] r = "add_tag_number_to_user"      -> Down_add_tag_number_to_user
    [] r = "b695"                        -> Down_b695
    [] r = "add_notifications_v2"        -> Down_add_notifications_v2
    [] r = "dcca"                        -> Down_dcca
    [] r = "b066"                        -> Down_b066
    [] r = "add_timezone_user"           -> Down_add_timezone_user
    [] r = "8a96"                        -> Down_8a96
    [] r = "9b12"                        -> Down_9b12
    [] r = "8376"                        -> Down_8376
    [] r = "b29c"                        -> Down_b29c
    [] r = "0cd2"                        -> Down_0cd2
    [] r = "15ac"                        -> Down_15ac
    [] r = "f96d"                        -> Down_f96d
    [] r = "add_org_id_to_role"          -> Down_add_org_id_to_role
    [] r = "refactor_wallet"             -> Down_refactor_wallet
    [] r = "fix_credit_transfer_cascade" -> Down_fix_credit_transfer_cascade(S)
    [] r = "2cb8"                        -> Down_2cb8
    [] r = "ff95"                        -> Down_ff95
    [] r = "3f33"                        -> Down_3f33
    [] r = "eb29"                        -> Down_eb29
    [] r = "6e60"                        -> Down_6e60
    [] r = "7f80"                        -> Down_7f80
    [] r = "f4b8f3"                      -> Down_f4b8f3
    [] r = "a53f"                        -> Down_a53f
    [] r = "a2d1"                        -> Down_a2d1
    [] r = "36eb"                        -> Down_36eb
    [] r = "ab55"                        -> Down_ab55
    [] r = "1eff"                        -> Down_1eff
    [] r = "2ff9"                        -> Down_2ff9
    [] r = "2563"                        -> Down_2563
    [] r = "dc33"                        -> Down_dc33
    [] r = "070c"                        -> Down_070c
    [] r = "a1b2"                        -> Down_a1b2
    [] OTHER                             -> <<>>

\* What revision r makes of a schema. Others add the facts extra[r] to it then.
Migrated(r, S, extra) ==
  {A \cup (IF r \in DOMAIN extra THEN extra[r] ELSE {}) : A \in Run(UpgradeOf(r, S), S)}

\* The schemas the revisions of rs lead to from S, in the order of History: one, or none.
Replayed(S, rs, extra) ==
  LET done[i \in 0..Len(History)] ==
        IF i = 0 THEN {S}
        ELSE IF History[i] \notin rs THEN done[i - 1]
        ELSE UNION {Migrated(History[i], B, extra) : B \in done[i - 1]}
  IN  done[Len(History)]

-----------------------------------------------------------------------------
(***************************************************************************)
(* Two kinds of tables no migration of this history makes, although later  *)
(* ones alter them: those of the copilot hub, whose revision has lost its  *)
(* statements (add_copilot_hub_tables says it creates eight tables), and   *)
(* what an earlier release of the association's server had made itself.    *)
(***************************************************************************)
HubTable(t, cols, refs, idx) == CreateTable(t, cols, refs, idx).made

HubTables ==
  UNION {
    HubTable("copilot", {"description", "tags", "stop_sequences", "system_prompt", "tools_config",
                         "suggested_prompts", "capabilities"},
             {By("workspace_id", "workspace"), By("created_by", "user")}, {}),
    HubTable("copilot_conversation", {"context"}, {By("user_id", "user")}, {}),
    HubTable("copilot_document", {"metadata"}, {By("uploaded_by", "user")}, {}),
    HubTable("copilot_document_chunk", {"metadata", "content"}, {}, {"embedding"}),
    HubTable("copilot_execution", {"input_message", "conversation_id"}, {By("user_id", "user")},
             {}),
    HubTable("copilot_message", {"content", "attachments", "metadata"}, {}, {}),
    HubTable("copilot_tool", {"parameters_schema", "config"}, {}, {}),
    HubTable("copilot_tool_execution", {"input_params"}, {}, {}) }

EarlierRelease ==
  CreateTable("system_settings",
    {"association_logo", "flutterwave_public_key", "flutterwave_secret_key", "bank_name",
     "account_number", "account_name"}, {}, {}).made
    \cup {Column("event", "image")}
=============================================================================
