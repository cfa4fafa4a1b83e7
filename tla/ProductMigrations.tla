-------------------------- MODULE ProductMigrations -------------------------
(***************************************************************************)
(* The migrations of the product the association's backend grew out of:    *)
(* src/app/alembic/versions from e2412789c190 to 36eb937fa518, in the      *)
(* order of their dates. Up_r and Down_r are the statements of upgrade()   *)
(* and downgrade() of revision r (of a long hexadecimal number, its first  *)
(* four digits); a revision that does nothing has none. A column no other  *)
(* operation names is left out. A migration that asks an inspector what is *)
(* there takes the schema it finds as its argument.                        *)
(*                                                                         *)
(* A definition placed directly above another of the same parameters is a  *)
(* faulty variant of it that no operator uses.                             *)
(***************************************************************************)
EXTENDS Schema

\* e2412789c190_initialize_models.py
Up_e241 ==
  << CreateTable("user", {"is_active", "is_superuser", "full_name", "id", "hashed_password"}, {},
       {"email"}),
     CreateTable("item", {"description", "id", "title"}, {By("owner_id", "user")}, {}) >>

Down_e241 ==
  << DropTable("item", {}),
     DropTable("user", {"email"}) >>

\* 9c0a54914c78_add_max_length_for_string_varchar_.py
Up_9c0a ==
  << Alter("user", {"email", "full_name"}),
     Alter("item", {"title", "description"}) >>

Down_9c0a ==
  << Alter("user", {"email", "full_name"}),
     Alter("item", {"title", "description"}) >>

\* d98dd8ec85a3_edit_replace_id_integers_in_all_models_.py
Up_d98d ==
  << AddColumns("user", {"new_id"}),
     AddColumns("item", {"new_id", "new_owner_id"}),
     Alter("item", {"new_owner_id", "owner_id"}),
     Alter("user", {"new_id"}),
     Alter("item", {"new_id"}),
     DropRef("item", By("owner_id", "user")),
     DropColumns("item", {"owner_id"}),
     RenameColumn("item", "new_owner_id", "owner_id"),
     DropColumns("user", {"id"}),
     RenameColumn("user", "new_id", "id"),
     Uuid("user"),
     DropColumns("item", {"id"}),
     RenameColumn("item", "new_id", "id"),
     Refer("item", By("owner_id", "user")) >>

Down_d98d ==
  << AddColumns("user", {"old_id"}),
     AddColumns("item", {"old_id", "old_owner_id"}),
     Alter("item", {"old_id", "old_owner_id", "owner_id"}),
     DropRef("item", By("owner_id", "user")),
     DropColumns("item", {"owner_id"}),
     RenameColumn("item", "old_owner_id", "owner_id"),
     DropColumns("user", {"id"}),
     RenameColumn("user", "old_id", "id"),
     Serial("user"),
     DropColumns("item", {"id"}),
     RenameColumn("item", "old_id", "id"),
     Refer("item", By("owner_id", "user")) >>

\* 1a31ce608336_add_cascade_delete_relationships.py
Up_1a31 ==
  << Alter("item", {"owner_id"}),
     DropRef("item", By("owner_id", "user")),
     Refer("item", By("owner_id", "user")) >>

Down_1a31 ==
  << DropUnnamed("item"),
     Refer("item", By("owner_id", "user")),
     Alter("item", {"owner_id"}) >>

\* add_rbac_tables_and_user_roles.py
Up_add_rbac_tables ==
  << CreateTable("role", {"id", "description"}, {}, {"name"}),
     AddUnique("role", "name"),
     CreateTable("permission", {"id", "description"}, {}, {"name"}),
     AddUnique("permission", "name"),
     CreateTable("userrole", {"id"}, {By("role_id", "role"), By("user_id", "user")}, {}),
     CreateTable("rolepermission", {"id", "allowed"}, {By("permission_id", "permission"),
       By("role_id", "role")}, {}) >>

Down_add_rbac_tables ==
  << DropTable("rolepermission", {}),
     DropTable("userrole", {}),
     DropTable("permission", {"name"}),
     DropTable("role", {"name"}) >>

\* drop_item_table.py
Up_drop_item_table ==
  << DropTable("item", {}) >>

Down_drop_item_table ==
  << CreateTable("item", {"id", "title", "description"}, {By("owner_id", "user")}, {}) >>

\* add_ai_chat_tables.py
Up_add_ai_chat_001 ==
  << CreateTable("ai_chats", {}, {By("user_id", "user")}, {"created_at", "user_id"}),
     CreateTable("ai_chat_messages", {}, {By("chat_id", "ai_chats")}, {"chat_id", "created_at",
       "role"}) >>

Down_add_ai_chat_001 ==
  << DropTable("ai_chat_messages", {"role", "created_at", "chat_id"}),
     DropTable("ai_chats", {"user_id", "created_at"}) >>

\* add_dashboard_models.py
Up_add_dashboard_models ==
  << CreateTable("project", {"created_at"}, {By("user_id", "user")}, {"name"}),
     CreateTable("apirequest", {}, {By("project_id", "project"), By("user_id", "user")}, {"model",
       "created_at"}),
     CreateTable("credittransaction", {}, {By("user_id", "user")}, {"user_id", "transaction_type",
       "created_at"}) >>

Down_add_dashboard_models ==
  << DropTable("credittransaction", {"created_at", "transaction_type", "user_id"}),
     DropTable("apirequest", {"created_at", "model"}),
     DropTable("project", {"name"}) >>

\* 88257c6a1c9c_add_topup_and_apikey_models.py
Up_8825 ==
  << CreateTable("apikey", {}, {By("user_id", "user")}, {"created_at", "user_id"}),
     CreateTable("credit_transaction", {}, {By("user_id", "user")}, {"created_at",
       "transaction_type", "user_id"}),
     CreateTable("topup", {}, {By("user_id", "user")}, {"created_at", "payment_reference",
       "user_id"}),
     DropTable("credittransaction", {"created_at", "transaction_type", "user_id"}) >>

Down_8825 ==
  << CreateTable("credittransaction", {}, {By("user_id", "user")}, {"user_id", "transaction_type",
       "created_at"}),
     DropTable("topup", {"user_id", "payment_reference", "created_at"}),
     DropTable("credit_transaction", {"user_id", "transaction_type", "created_at"}),
     DropTable("apikey", {"user_id", "created_at"}) >>

\* add_enhanced_projects_feature.py
Up_add_enhanced_projects ==
  << CreateTable("organization", {"name", "created_at", "updated_at"}, {By("owner_id", "user")},
       {}),
     CreateTable("organization_member", {"joined_at"}, {By("organization_id", "organization"),
       By("user_id", "user")}, {}),
     AddColumns("project", {"type", "status", "project_url", "org_id", "api_key_id", "is_deleted",
       "deleted_at"}),
     RenameColumn("project", "user_id", "owner_user_id"),
     Refer("project", <<"fk_project_org_id", "org_id", "organization">>),
     Refer("project", <<"fk_project_api_key_id", "api_key_id", "apikey">>),
     EnsureIndexes("project", {"owner_user_id", "type", "status", "is_deleted"}) >>

Down_add_enhanced_projects ==
  << DiscardIndexes("project", {"owner_user_id", "type", "status", "is_deleted"}),
     DropRef("project", <<"fk_project_api_key_id", "api_key_id", "apikey">>),
     DropRef("project", <<"fk_project_org_id", "org_id", "organization">>),
     RenameColumn("project", "owner_user_id", "user_id"),
     DropColumns("project", {"deleted_at", "is_deleted", "api_key_id", "org_id", "project_url",
       "status", "type"}),
     DropTable("organization_member", {}),
     DropTable("organization", {}) >>

\* add_user_settings_fields.py
Up_add_user_settings_fields ==
  << AddColumns("user", {"first_name", "last_name", "phone", "state", "avatar", "created_at",
       "updated_at"}),
     Alter("user", {"created_at", "updated_at"}) >>

Down_add_user_settings_fields ==
  << DropColumns("user", {"updated_at", "created_at", "avatar", "state", "phone", "last_name",
       "first_name"}) >>

\* 93510c4de6e8_add_workspace_tables.py
Up_9351 ==
  << CreateTable("workspace", {}, {By("owner_id", "user")}, {"name", "owner_id"}),
     CreateTable("workspace_member", {}, {By("user_id", "user"), By("workspace_id", "workspace")},
       {"user_id", "workspace_id"}),
     CreateTable("workspace_project", {}, {By("created_by", "user"), By("workspace_id",
       "workspace")}, {"name", "workspace_id"}),
     CreateTable("workspace_role", {}, {By("workspace_id", "workspace")}, {"name",
       "workspace_id"}),
     CreateTable("workspace_credit_transaction", {}, {By("recipient_id", "workspace_member"),
       By("workspace_id", "workspace")}, {"workspace_id"}),
     CreateTable("workspace_member_role", {}, {By("member_id", "workspace_member"), By("role_id",
       "workspace_role")}, {"member_id", "role_id"}),
     CreateTable("workspace_project_member", {}, {By("member_id", "workspace_member"),
       By("project_id", "workspace_project")}, {"member_id", "project_id"}) >>

Down_9351 ==
  << DropTable("workspace_project_member", {"project_id", "member_id"}),
     DropTable("workspace_member_role", {"role_id", "member_id"}),
     DropTable("workspace_credit_transaction", {"workspace_id"}),
     DropTable("workspace_role", {"workspace_id", "name"}),
     DropTable("workspace_project", {"workspace_id", "name"}),
     DropTable("workspace_member", {"workspace_id", "user_id"}),
     DropTable("workspace", {"owner_id", "name"}) >>

\* add_tag_number_to_user.py
Up_add_tag_number_to_user ==
  << AddColumns("user", {"tag_number"}),
     CreateIndexes("user", {"tag_number"}) >>

Down_add_tag_number_to_user ==
  << DropIndexes("user", {"tag_number"}),
     DropColumns("user", {"tag_number"}) >>

\* b695c2f86266_make_workspace_member_user_id_nullable.py
Up_b695 ==
  << Alter("workspace_member", {"user_id"}) >>

Down_b695 ==
  << Alter("workspace_member", {"user_id"}) >>

\* add_notifications_v2.py
Up_add_notifications_v2 ==
  << CreateTable("notification", {"title", "description", "type", "metadata_json", "id"},
       {By("user_id", "user")}, {"created_at", "is_read", "user_id"}),
     AddColumns("topup", {"workspace_id"}),
     CreateIndexes("topup", {"workspace_id"}),
     Refer("topup", By("workspace_id", "workspace")),
     CreateIndexes("project", {"created_at"}) >>

Down_add_notifications_v2 ==
  << DropIndexes("project", {"created_at"}),
     DropRef("topup", By("workspace_id", "workspace")),
     DropIndexes("topup", {"workspace_id"}),
     DropColumns("topup", {"workspace_id"}),
     DropTable("notification", {"user_id", "is_read", "created_at"}) >>

\* dcca84879561_add_account_type_organization_name_and_.py
Up_dcca ==
  << AddColumns("user", {"account_type", "organization_name", "accepted_terms_at"}) >>

Down_dcca ==
  << DropColumns("user", {"accepted_terms_at", "organization_name", "account_type"}) >>

\* b066011b6f82_add_user_status_last_login_and_auth_.py
HubChanges ==
  << CreateTable("oauth_connection", {"expires_at", "scopes", "last_synced_at",
       "connection_metadata", "created_at", "updated_at"}, {}, {"provider", "user_id",
       "workspace_id"}),
     CreateTable("credit_transfer", {"status", "created_at", "updated_at"}, {By("recipient_id",
       "user"), By("sender_id", "user")}, {}),
     Alter("copilot", {"description", "tags", "stop_sequences", "system_prompt",
       "suggested_prompts", "capabilities", "tools_config"}),
     CreateIndexes("copilot", {"workspace_id"}),
     DropRef("copilot", By("workspace_id", "workspace")),
     DropRef("copilot", By("created_by", "user")),
     Alter("copilot_conversation", {"context"}),
     DropRef("copilot_conversation", By("user_id", "user")),
     AddColumns("copilot_document", {"document_metadata"}),
     CreateIndexes("copilot_document", {"uploaded_by"}),
     DropRef("copilot_document", By("uploaded_by", "user")),
     DropColumns("copilot_document", {"metadata"}),
     AddColumns("copilot_document_chunk", {"chunk_metadata"}),
     Alter("copilot_document_chunk", {"content"}),
     DropIndexes("copilot_document_chunk", {"embedding"}),
     DropColumns("copilot_document_chunk", {"metadata"}),
     Alter("copilot_execution", {"input_message"}),
     CreateIndexes("copilot_execution", {"conversation_id"}),
     DropRef("copilot_execution", By("user_id", "user")),
     AddColumns("copilot_message", {"message_metadata"}),
     Alter("copilot_message", {"content", "attachments"}),
     DropColumns("copilot_message", {"metadata"}),
     Alter("copilot_tool", {"parameters_schema", "config"}),
     Alter("copilot_tool_execution", {"input_params"}) >>

ProductChanges ==
  << Alter("organization", {"created_at", "updated_at"}),
     Alter("organization_member", {"joined_at"}),
     Alter("permission", {"name"}),
     Reindex("permission", "name"),
     Alter("project", {"deleted_at"}),
     DropRef("project", <<"fk_project_api_key_id", "api_key_id", "apikey">>),
     Refer("project", By("api_key_id", "apikey")),
     Alter("role", {"name"}),
     Reindex("role", "name"),
     Alter("rolepermission", {"allowed"}) >>

\* Columns of "user" that an environment may already have.
UserColumns(S) ==
  Unless(S, Column("user", "username"),
         << AddColumns("user", {"username"}), CreateIndexes("user", {"username"}) >>)
    \o << EnsureColumns("user",
             {"phone_number", "dial_code", "auth_provider", "address", "postcode", "city",
              "country", "credits", "status", "last_login"}),
          Alter("user", {"tag_number", "created_at", "updated_at"}) >>

Up_b066(S) == HubChanges \o ProductChanges \o UserColumns(S)

Down_b066 ==
  << DropIndexes("workspace_member", {"invited_email"}),
     DropColumns("workspace_member", {"invited_email"}),
     DropIndexes("user", {"username"}),
     Alter("user", {"updated_at", "created_at", "tag_number"}),
     DropColumns("user", {"last_login", "status", "credits", "country", "city", "postcode",
       "address", "auth_provider", "dial_code", "phone_number", "username"}),
     Alter("rolepermission", {"allowed"}),
     Reindex("role", "name"),
     AddUnique("role", "name"),
     Alter("role", {"name"}),
     DropUnnamed("project"),
     Refer("project", <<"fk_project_api_key_id", "api_key_id", "apikey">>),
     Alter("project", {"deleted_at"}),
     Reindex("permission", "name"),
     AddUnique("permission", "name"),
     Alter("permission", {"name"}),
     Alter("organization_member", {"joined_at"}),
     Alter("organization", {"updated_at", "created_at"}),
     Alter("copilot_tool_execution", {"input_params"}),
     Alter("copilot_tool", {"config", "parameters_schema"}),
     AddRequired("copilot_message", {"metadata"}),
     Alter("copilot_message", {"attachments", "content"}),
     DropColumns("copilot_message", {"message_metadata"}),
     Refer("copilot_execution", By("user_id", "user")),
     DropIndexes("copilot_execution", {"conversation_id"}),
     Alter("copilot_execution", {"input_message"}),
     AddRequired("copilot_document_chunk", {"metadata"}),
     CreateIndexes("copilot_document_chunk", {"embedding"}),
     Alter("copilot_document_chunk", {"content"}),
     DropColumns("copilot_document_chunk", {"chunk_metadata"}),
     AddRequired("copilot_document", {"metadata"}),
     Refer("copilot_document", By("uploaded_by", "user")),
     DropIndexes("copilot_document", {"uploaded_by"}),
     DropColumns("copilot_document", {"document_metadata"}),
     Refer("copilot_conversation", By("user_id", "user")),
     Alter("copilot_conversation", {"context"}),
     Refer("copilot", By("created_by", "user")),
     Refer("copilot", By("workspace_id", "workspace")),
     DropIndexes("copilot", {"workspace_id"}),
     Alter("copilot", {"tools_config", "capabilities", "suggested_prompts", "system_prompt",
       "stop_sequences", "tags", "description"}),
     DropTable("credit_transfer", {}),
     DropTable("copilot_share", {"user_id", "shared_at", "email", "copilot_id"}),
     DropTable("copilot_activity", {"user_id", "created_at", "copilot_id", "activity_type",
       "activity_status"}),
     DropTable("oauth_connection", {"workspace_id", "user_id", "provider"}) >>

\* add_timezone_user.py
Up_add_timezone_user == << EnsureColumns("user", {"timezone"}) >>

Down_add_timezone_user ==
  << DropColumns("user", {"timezone"}) >>

\* 8a96ee33d811_add_aimodel_and_aiprovider.py
Up_8a96 ==
  << CreateTable("aiprovider", {}, {}, {"name", "slug"}),
     CreateTable("aimodel", {}, {By("provider_id", "aiprovider")}, {"name", "slug"}) >>

Down_8a96Half == << DropTable("aimodel", {"slug", "name"}) >>

Down_8a96 ==
  << DropTable("aimodel", {"slug", "name"}),
     DropTable("aiprovider", {"slug", "name"}) >>

\* 9b12cd44e922_add_organization_model_table.py
Up_9b12 ==
  << CreateTable("organization_model", {}, {By("model_id", "aimodel"), By("organization_id",
       "organization")}, {"model_id", "organization_id"}) >>

Down_9b12 ==
  << DropTable("organization_model", {"organization_id", "model_id"}) >>

\* 8376ab50ddcb_add_campaign_table.py
Up_8376 ==
  << CreateTable("campaign", {}, {By("user_id", "user")}, {"created_at", "name", "status",
       "user_id"}) >>

Down_8376 ==
  << DropTable("campaign", {"user_id", "status", "name", "created_at"}) >>

\* b29c8d64ba51_add_analytics_fields_to_campaign.py
Up_b29c ==
  << AddColumns("campaign", {"total_distributed", "spent_naira"}) >>

Down_b29c ==
  << DropColumns("campaign", {"spent_naira", "total_distributed"}) >>

\* 0cd2235c8e5f_add_help_center_models.py
Up_0cd2 ==
  << CreateTable("helpcategory", {}, {}, {}),
     CreateTable("helpfaq", {}, {}, {}),
     CreateTable("helparticle", {}, {By("category_id", "helpcategory")}, {}) >>

Down_0cd2 ==
  << DropTable("helparticle", {}),
     DropTable("helpfaq", {}),
     DropTable("helpcategory", {}) >>

\* 15ace1d067b7_add_organization_id_to_workspace.py
Up_15ac ==
  << AddColumns("workspace", {"organization_id"}),
     CreateIndexes("workspace", {"organization_id"}),
     Refer("workspace", By("organization_id", "organization")) >>

Down_15ac ==
  << DropUnnamed("workspace"),
     DropIndexes("workspace", {"organization_id"}),
     DropColumns("workspace", {"organization_id"}) >>

\* f96dd5013eb6_add_status_to_org_member.py
Up_f96d ==
  << CreateTable("copilot_activity", {}, {By("copilot_id", "copilot")}, {"activity_status",
       "activity_type", "copilot_id", "created_at", "user_id"}),
     CreateTable("copilot_share", {}, {By("copilot_id", "copilot")}, {"copilot_id", "email",
       "shared_at", "user_id"}),
     EnsureColumns("apikey", {"abuse_score"}),
     Alter("credit_transfer", {"created_at", "updated_at"}),
     DiscardIndexes("credit_transfer", {"created_at", "recipient_id", "sender_id", "status"}),
     DiscardRef("credit_transfer", By("sender_id", "user")),
     DiscardRef("credit_transfer", By("recipient_id", "user")),
     Refer("credit_transfer", By("sender_id", "user")),
     Refer("credit_transfer", By("recipient_id", "user")),
     Alter("oauth_connection", {"expires_at", "scopes", "last_synced_at", "connection_metadata",
       "created_at", "updated_at"}),
     DiscardIndexes("oauth_connection", {"user_provider"}),
     EnsureColumns("organization_member", {"status"}),
     Alter("organization_member", {"joined_at"}) >>

Down_f96d ==
  << Alter("organization_member", {"joined_at"}),
     DropColumns("organization_member", {"status"}),
     CreateNamedIndex("oauth_connection", "user_provider", {"user_id", "provider"}),
     Alter("oauth_connection", {"updated_at", "created_at", "connection_metadata",
       "last_synced_at", "scopes", "expires_at"}),
     DropUnnamed("credit_transfer"),
     DropUnnamed("credit_transfer"),
     Refer("credit_transfer", By("recipient_id", "user")),
     Refer("credit_transfer", By("sender_id", "user")),
     CreateIndexes("credit_transfer", {"status", "sender_id", "recipient_id", "created_at"}),
     Alter("credit_transfer", {"updated_at", "created_at"}),
     Alter("apikey", {"abuse_score"}),
     DropTable("copilot_share", {"user_id", "shared_at", "email", "copilot_id"}),
     DropTable("copilot_activity", {"user_id", "created_at", "copilot_id", "activity_type",
       "activity_status"}) >>

\* add_org_id_to_role.py
Up_add_org_id_to_role ==
  << AddColumns("role", {"organization_id"}),
     CreateIndexes("role", {"organization_id"}),
     Refer("role", By("organization_id", "organization")) >>

Down_add_org_id_to_role ==
  << DropUnnamed("role"),
     DropIndexes("role", {"organization_id"}),
     DropColumns("role", {"organization_id"}) >>

\* refactor_wallet_to_org_level.py
Up_refactor_wallet ==
  << AddColumns("organization", {"credits_balance"}),
     AddColumns("workspace", {"monthly_credit_limit"}),
     CreateTable("organization_credit_transaction", {"description", "reference_id"},
       {By("organization_id", "organization"), By("workspace_id", "workspace"), By("performed_by",
       "user")}, {"organization_id", "transaction_type", "workspace_id", "created_at"}),
     CreateTable("workspace_usage_tracking", {"billing_period_start", "billing_period_end",
       "created_at"}, {By("organization_id", "organization"), By("workspace_id", "workspace")},
       {"organization_id", "workspace_id"}),
     AddUnique("workspace_usage_tracking", "unique_workspace_period_usage") >>

Down_refactor_wallet ==
  << DropTable("workspace_usage_tracking", {"workspace_id", "organization_id"}),
     DropTable("organization_credit_transaction", {"created_at", "workspace_id",
       "transaction_type", "organization_id"}),
     DropColumns("workspace", {"monthly_credit_limit"}),
     DropColumns("organization", {"credits_balance"}) >>

\* fix_credit_transfer_cascade.py
\* whatever the two references are called now, they get the names given here
TransferRefs(S) ==
  {<<f[3], f[4], f[5]>> : f \in {g \in S : /\ IsFk(g) /\ g[2] = "credit_transfer"
                                          /\ g[4] \in {"sender_id", "recipient_id"}}}

NameTransferRefs(S) ==
  << Inspect("credit_transfer"),
     DropRefs("credit_transfer", TransferRefs(S)),
     Refer("credit_transfer", <<"fk_credit_transfer_sender_user", "sender_id", "user">>),
     Refer("credit_transfer", <<"fk_credit_transfer_recipient_user", "recipient_id", "user">>) >>

Up_fix_credit_transfer_cascade(S) == NameTransferRefs(S)

Down_fix_credit_transfer_cascade(S) == NameTransferRefs(S)

\* 2cb8a58be64c_add_organization_credit_models_and_.py
Up_2cb8 ==
  << DropRef("credit_transfer", <<"fk_credit_transfer_recipient_user", "recipient_id", "user">>),
     DropRef("credit_transfer", <<"fk_credit_transfer_sender_user", "sender_id", "user">>),
     Refer("credit_transfer", By("recipient_id", "user")),
     Refer("credit_transfer", By("sender_id", "user")),
     Alter("organization_credit_transaction", {"description"}),
     DropIndexes("organization_credit_transaction", {"workspace_id"}),
     DropColumns("organization_credit_transaction", {"reference_id"}),
     Reindex("role", "name"),
     DropUnique("workspace_usage_tracking", "unique_workspace_period_usage"),
     CreateIndexes("workspace_usage_tracking", {"billing_period_end", "billing_period_start"}),
     DropColumns("workspace_usage_tracking", {"created_at"}) >>

Down_2cb8 ==
  << AddRequired("workspace_usage_tracking", {"created_at"}),
     DropIndexes("workspace_usage_tracking", {"billing_period_start", "billing_period_end"}),
     AddUnique("workspace_usage_tracking", "unique_workspace_period_usage"),
     Reindex("role", "name"),
     AddColumns("organization_credit_transaction", {"reference_id"}),
     CreateIndexes("organization_credit_transaction", {"workspace_id"}),
     Alter("organization_credit_transaction", {"description"}),
     DropUnnamed("credit_transfer"),
     DropUnnamed("credit_transfer"),
     Refer("credit_transfer", <<"fk_credit_transfer_sender_user", "sender_id", "user">>),
     Refer("credit_transfer", <<"fk_credit_transfer_recipient_user", "recipient_id", "user">>) >>

\* ff950ce044f6_add_wallet_and_ledger_tables.py
Up_ff95(S) ==
  Unless(S, Table("wallet"),
         << CreateTable("wallet", {}, {}, {"owner_id", "owner_type"}) >>)
    \o Unless(S, Table("wallet_transaction"),
         << CreateTable("wallet_transaction", {},
              {By("created_by", "user"), By("wallet_id", "wallet")},
              {"created_at", "idempotency_key", "transaction_type", "wallet_id"}) >>)
    \o << EnsureColumns("copilot_message", {"agent_steps"}),
          EnsureColumns("workspace_credit_transaction", {"tokens"}) >>

Down_ff95 ==
  << DiscardColumns("workspace_credit_transaction", {"tokens"}),
     DiscardColumns("copilot_message", {"agent_steps"}),
     DropTable("wallet_transaction", {"wallet_id", "transaction_type", "idempotency_key",
       "created_at"}),
     DropTable("wallet", {"owner_type", "owner_id"}) >>

\* 3f33d381c6dc_add_wallet_tables.py
\* a foreign key that is dropped under its default name, if it is there, and made again
Renew(S, t, refs) ==
  Given(S, Table(t), [i \in DOMAIN refs |-> DiscardRef(t, refs[i])]
                       \o [i \in DOMAIN refs |-> Refer(t, refs[i])])

OwnedByOrganization(S, t) ==
  Given(S, Table(t),
    Unless(S, Column(t, "organization_id"),
      << AddColumns(t, {"organization_id"}), CreateIndexes(t, {"organization_id"}),
         Refer(t, By("organization_id", "organization")) >>))

Up_3f33(S) ==
  OwnedByOrganization(S, "apirequest")
    \o Renew(S, "audit_log", << By("actor_id", "user") >>)
    \o Renew(S, "credit_transfer", << By("recipient_id", "user"), By("sender_id", "user") >>)
    \o Renew(S, "platform_settings", << By("updated_by", "user") >>)
    \o OwnedByOrganization(S, "topup")
    \o Renew(S, "workspace_project", << By("created_by", "user") >>)

Down_3f33 ==
  << DropUnnamed("workspace_project"),
     Refer("workspace_project", By("created_by", "user")),
     DropUnnamed("topup"),
     DropIndexes("topup", {"organization_id"}),
     DropColumns("topup", {"organization_id"}),
     DropUnnamed("platform_settings"),
     Refer("platform_settings", By("updated_by", "user")),
     DropUnnamed("credit_transfer"),
     DropUnnamed("credit_transfer"),
     Refer("credit_transfer", By("sender_id", "user")),
     Refer("credit_transfer", By("recipient_id", "user")),
     DropUnnamed("audit_log"),
     Refer("audit_log", By("actor_id", "user")),
     DropUnnamed("apirequest"),
     DropIndexes("apirequest", {"organization_id"}),
     DropColumns("apirequest", {"organization_id"}) >>

\* eb295549313b_add_description_to_wallet_transaction.py
Up_eb29 ==
  << AddColumns("wallet_transaction", {"description"}) >>

Down_eb29 ==
  << DropColumns("wallet_transaction", {"description"}) >>

\* 6e602637289f_add_platform_settings_table.py
HubSchema ==
  << CreateTable("copilot.copilot", {}, {}, {"category", "created_at", "created_by", "name",
       "organization_id", "status", "visibility", "workspace_id"}),
     CreateTable("copilot.copilot_activity", {}, {By("copilot_id", "copilot.copilot")},
       {"activity_status", "activity_type", "copilot_id", "created_at", "user_id"}),
     CreateTable("copilot.copilot_conversation", {}, {By("copilot_id", "copilot.copilot")},
       {"copilot_id", "created_at", "user_id"}),
     CreateTable("copilot.copilot_document", {}, {By("copilot_id", "copilot.copilot")},
       {"copilot_id", "created_at", "status", "uploaded_by"}),
     CreateTable("copilot.copilot_share", {}, {By("copilot_id", "copilot.copilot")},
       {"copilot_id", "email", "shared_at", "user_id"}),
     CreateTable("copilot.copilot_tool", {}, {By("copilot_id", "copilot.copilot")}, {"copilot_id",
       "name", "tool_type"}) >>

HubSchemaUse ==
  << CreateTable("copilot.copilot_workspace", {}, {By("copilot_id", "copilot.copilot")},
       {"copilot_id", "workspace_id"}),
     CreateTable("copilot.copilot_document_chunk", {}, {By("document_id",
       "copilot.copilot_document")}, {"document_id"}),
     CreateTable("copilot.copilot_execution", {}, {By("conversation_id",
       "copilot.copilot_conversation"), By("copilot_id", "copilot.copilot")}, {"celery_task_id",
       "conversation_id", "copilot_id", "created_at", "status", "user_id"}),
     CreateTable("copilot.copilot_message", {}, {By("conversation_id",
       "copilot.copilot_conversation")}, {"conversation_id", "created_at", "role"}),
     CreateTable("copilot.copilot_tool_execution", {}, {By("conversation_id",
       "copilot.copilot_conversation"), By("message_id", "copilot.copilot_message"), By("tool_id",
       "copilot.copilot_tool")}, {"conversation_id", "created_at", "status", "tool_id"}) >>

Up_6e60(S) ==
  Unless(S, Table("platform_settings"),
         << CreateTable("platform_settings", {}, {By("updated_by", "user")}, {}),
            Insert("platform_settings") >>)
    \o Unless(S, Table("security_event"),
         << CreateTable("security_event", {}, {By("assigned_to_id", "user"), By("user_id", "user")},
                        {"created_at", "severity", "status", "type"}) >>)
    \o Unless(S, Table("copilot.copilot"), HubSchema \o HubSchemaUse)

Down_6e60 ==
  << DropTable("copilot.copilot_tool_execution", {"tool_id", "status", "created_at",
       "conversation_id"}),
     DropTable("copilot.copilot_message", {"role", "created_at", "conversation_id"}),
     DropTable("copilot.copilot_execution", {"user_id", "status", "created_at", "copilot_id",
       "conversation_id", "celery_task_id"}),
     DropTable("copilot.copilot_document_chunk", {"document_id"}),
     DropTable("copilot.copilot_workspace", {"workspace_id", "copilot_id"}),
     DropTable("copilot.copilot_tool", {"tool_type", "name", "copilot_id"}),
     DropTable("copilot.copilot_share", {"user_id", "shared_at", "email", "copilot_id"}),
     DropTable("copilot.copilot_document", {"uploaded_by", "status", "created_at", "copilot_id"}),
     DropTable("copilot.copilot_conversation", {"user_id", "created_at", "copilot_id"}),
     DropTable("copilot.copilot_activity", {"user_id", "created_at", "copilot_id",
       "activity_type", "activity_status"}),
     DropTable("copilot.copilot", {"workspace_id", "visibility", "status", "organization_id",
       "name", "created_by", "created_at", "category"}) >>

\* 7f803748390a_add_invited_email_to_workspace_member.py
Up_7f80 ==
  << AddColumns("workspace_member", {"invited_email"}),
     CreateIndexes("workspace_member", {"invited_email"}) >>

Down_7f80 ==
  << DropIndexes("workspace_member", {"invited_email"}),
     DropColumns("workspace_member", {"invited_email"}) >>

\* f4b8c9d0e1f2_ensure_user_columns.py
\* The inspector keeps the columns it read first: an index is made only over a column that was
\* there before this migration.
IndexIfPresent(S, c) ==
  Given(S, Column("user", c), << EnsureIndexes("user", {c}) >>)

Up_f4b8f2(S) ==
  Given(S, Table("user"),
    << EnsureColumns("user",
         {"tag_number", "first_name", "last_name", "phone", "state", "avatar", "username",
          "phone_number", "dial_code", "auth_provider", "address", "postcode",
          "city", "country", "timezone", "credits", "status", "last_login",
          "account_type", "organization_name", "accepted_terms_at", "created_at",
          "updated_at"}) >>
      \o IndexIfPresent(S, "username") \o IndexIfPresent(S, "tag_number"))

\* f4b8c9d0e1f3_add_audit_log_table.py
Up_f4b8f3(S) ==
  Unless(S, Table("audit_log"),
         << CreateTable("audit_log", {}, {By("actor_id", "user")},
              {"action", "actor_id", "correlation_id", "organization_id", "target_id", "timestamp",
               "workspace_id"}) >>)

Down_f4b8f3 ==
  << DropTable("audit_log", {}) >>

\* a53f0a07fa4c_add_is_verified_to_user.py
Up_a53f ==
  << AddColumns("user", {"is_verified"}) >>

Down_a53f ==
  << DropColumns("user", {"is_verified"}) >>

\* a2d13ee57700_add_ip_address_and_origin_to_apirequest.py
Up_a2d1 ==
  << AddColumns("apikey", {"allowed_ips", "allowed_domains"}),
     AddColumns("apirequest", {"ip_address", "origin"}) >>

Down_a2d1 ==
  << DropIndexes("user", {"created_at"}),
     DropIndexes("apirequest", {"user_id"}),
     DropColumns("apirequest", {"origin", "ip_address"}),
     DropColumns("apikey", {"allowed_domains", "allowed_ips"}),
     DropTable("copilot.copilot_tool_execution", {"tool_id", "status", "created_at",
       "conversation_id"}),
     DropTable("copilot.copilot_message", {"role", "created_at", "conversation_id"}),
     DropTable("copilot.copilot_execution", {"user_id", "status", "created_at", "copilot_id",
       "conversation_id", "celery_task_id"}),
     DropTable("copilot.copilot_document_chunk", {"document_id"}),
     DropTable("copilot.copilot_workspace", {"workspace_id", "copilot_id"}),
     DropTable("copilot.copilot_tool", {"tool_type", "name", "copilot_id"}),
     DropTable("copilot.copilot_share", {"user_id", "shared_at", "email", "copilot_id"}),
     DropTable("copilot.copilot_document", {"uploaded_by", "status", "created_at", "copilot_id"}),
     DropTable("copilot.copilot_conversation", {"user_id", "created_at", "copilot_id"}),
     DropTable("copilot.copilot_activity", {"user_id", "created_at", "copilot_id",
       "activity_type", "activity_status"}),
     DropTable("copilot.copilot", {"workspace_id", "visibility", "status", "organization_id",
       "name", "created_by", "created_at", "category"}) >>

\* 36eb937fa518_add_organization_id_to_campaign.py
Up_36eb ==
  << AddColumns("campaign", {"organization_id"}),
     CreateIndexes("campaign", {"organization_id"}),
     Refer("campaign", By("organization_id", "organization")) >>

Down_36eb ==
  << DropUnnamed("campaign"),
     DropIndexes("campaign", {"organization_id"}),
     DropColumns("campaign", {"organization_id"}) >>
=============================================================================
