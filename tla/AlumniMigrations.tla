-------------------------- MODULE AlumniMigrations --------------------------
(***************************************************************************)
(* The migrations of the alumni association itself, from the transition    *)
(* ab55fad7e951, which drops the tables of the earlier product, to the     *)
(* head a8283c31fc96. Written as in ProductMigrations.                     *)
(*                                                                         *)
(* A definition placed directly above another of the same parameters is a  *)
(* faulty variant of it that no operator uses.                             *)
(***************************************************************************)
EXTENDS Schema

\* ab55fad7e951_phase3_alumni_transition_last.py
LegacyTables ==
  {"helparticle", "workspace_credit_transaction", "workspace_usage_tracking", "audit_log",
   "helpfaq", "organization_member", "ai_chat_messages", "campaign", "topup", "apikey",
   "oauth_connection", "organization_model", "workspace_project", "wallet_transaction",
   "organization_credit_transaction", "wallet", "credit_transaction",
   "workspace_member_role", "workspace_project_member", "platform_settings",
   "workspace_role", "aiprovider", "credit_transfer", "project", "workspace",
   "notification", "security_event", "apirequest", "helpcategory", "workspace_member",
   "ai_chats", "aimodel", "organization"}

Up_ab55 ==
  << Sweep(LegacyTables),
     DiscardColumns("role", {"organization_id"}),
     CreateTable("announcement", {"id", "title", "content", "is_active"}, {By("created_by_id",
       "user")}, {"created_at"}),
     CreateTable("event", {"id", "title", "description", "date", "location", "created_at"},
       {By("created_by_id", "user")}, {}),
     CreateTable("payment", {"id", "status", "amount", "description"}, {By("user_id", "user")},
       {"created_at", "transaction_reference", "user_id"}),
     AddColumns("user", {"graduation_year", "profession", "membership_id"}),
     DiscardIndexes("user", {"tag_number"}),
     CreateIndexes("user", {"membership_id"}),
     DiscardColumns("user", {"tag_number", "organization_name", "account_type"}) >>

\* The downgrade: its tables are made in no order their references allow.
AccountsBack ==
  << AddColumns("user", {"account_type", "organization_name", "tag_number"}),
     DropIndexes("user", {"membership_id"}),
     CreateIndexes("user", {"tag_number"}),
     DropColumns("user", {"membership_id", "profession", "graduation_year"}),
     AddColumns("role", {"organization_id"}),
     Refer("role", By("organization_id", "organization")),
     CreateIndexes("role", {"organization_id"}),
     CreateTable("credit_transaction", {}, {By("user_id", "user")}, {"user_id",
       "transaction_type", "created_at"}),
     CreateTable("audit_log", {}, {By("actor_id", "user")}, {"workspace_id", "timestamp",
       "target_id", "organization_id", "correlation_id", "actor_id", "action"}),
     CreateTable("helparticle", {}, {By("category_id", "helpcategory")}, {}),
     CreateTable("apirequest", {"ip_address", "origin"}, {By("organization_id", "organization"),
       By("project_id", "project"), By("user_id", "user")}, {"user_id", "organization_id",
       "model", "created_at"}),
     CreateTable("aimodel", {}, {By("provider_id", "aiprovider")}, {"slug", "name"}),
     CreateTable("topup", {}, {By("organization_id", "organization"), By("user_id", "user"),
       By("workspace_id", "workspace")}, {"workspace_id", "user_id", "payment_reference",
       "organization_id", "created_at"}) >>

UsageBack ==
  << CreateTable("apikey", {"abuse_score", "allowed_ips", "allowed_domains"}, {By("user_id",
       "user")}, {"user_id", "created_at"}),
     CreateTable("helpfaq", {}, {}, {}),
     CreateTable("credit_transfer", {"status", "created_at", "updated_at"}, {By("recipient_id",
       "user"), By("sender_id", "user")}, {}),
     CreateTable("campaign", {"total_distributed", "spent_naira"}, {By("organization_id",
       "organization"), By("user_id", "user")}, {"user_id", "status", "organization_id", "name",
       "created_at"}),
     CreateTable("ai_chat_messages", {}, {By("chat_id", "ai_chats")}, {"role", "created_at",
       "chat_id"}),
     CreateTable("workspace_usage_tracking", {}, {By("organization_id", "organization"),
       By("workspace_id", "workspace")}, {"workspace_id", "organization_id",
       "billing_period_start", "billing_period_end"}),
     CreateTable("oauth_connection", {"expires_at", "scopes", "last_synced_at",
       "connection_metadata", "created_at", "updated_at"}, {}, {"workspace_id", "user_id",
       "provider"}),
     CreateTable("workspace_member_role", {}, {By("member_id", "workspace_member"), By("role_id",
       "workspace_role")}, {"role_id", "member_id"}),
     CreateTable("security_event", {}, {By("assigned_to_id", "user"), By("user_id", "user")},
       {"type", "status", "severity", "created_at"}) >>

ProjectsBack ==
  << CreateTable("helpcategory", {}, {}, {}),
     CreateTable("platform_settings", {}, {By("updated_by", "user")}, {}),
     CreateTable("organization_model", {}, {By("model_id", "aimodel"), By("organization_id",
       "organization")}, {"organization_id", "model_id"}),
     CreateTable("ai_chats", {}, {By("user_id", "user")}, {"user_id", "created_at"}),
     CreateTable("project", {"project_url", "deleted_at"}, {By("api_key_id", "apikey"),
       <<"fk_project_org_id", "org_id", "organization">>, <<"user_id", "owner_user_id", "user">>},
       {"type", "status", "owner_user_id", "name", "is_deleted", "created_at"}),
     AddUnique("project", "project_api_key_id_key"),
     CreateTable("workspace_project", {}, {By("created_by", "user"), By("workspace_id",
       "workspace")}, {"workspace_id", "name"}),
     CreateTable("wallet", {}, {}, {"owner_type", "owner_id"}),
     CreateTable("notification", {"title", "description", "type", "metadata_json", "id"},
       {By("user_id", "user")}, {"user_id", "is_read", "created_at"}),
     CreateTable("workspace_credit_transaction", {"tokens"}, {By("recipient_id",
       "workspace_member"), By("workspace_id", "workspace")}, {"workspace_id"}) >>

WorkspacesBack ==
  << CreateTable("organization", {"created_at", "updated_at", "credits_balance"}, {By("owner_id",
       "user")}, {"name"}),
     CreateTable("workspace", {"monthly_credit_limit"}, {By("organization_id", "organization"),
       By("owner_id", "user")}, {"owner_id", "organization_id", "name"}),
     CreateTable("organization_credit_transaction", {"description"}, {By("organization_id",
       "organization"), By("performed_by", "user"), By("workspace_id", "workspace")},
       {"transaction_type", "organization_id", "created_at"}),
     CreateTable("workspace_member", {}, {By("user_id", "user"), By("workspace_id", "workspace")},
       {"workspace_id", "user_id", "invited_email"}),
     CreateTable("aiprovider", {}, {}, {"slug", "name"}),
     CreateTable("workspace_role", {}, {By("workspace_id", "workspace")}, {"workspace_id",
       "name"}),
     CreateTable("wallet_transaction", {"description"}, {By("created_by", "user"), By("wallet_id",
       "wallet")}, {"wallet_id", "transaction_type", "idempotency_key", "created_at"}),
     CreateTable("organization_member", {"joined_at", "status"}, {By("organization_id",
       "organization"), By("user_id", "user")}, {}),
     CreateTable("workspace_project_member", {}, {By("member_id", "workspace_member"),
       By("project_id", "workspace_project")}, {"project_id", "member_id"}),
     DropTable("payment", {"user_id", "transaction_reference", "created_at"}),
     DropTable("event", {}),
     DropTable("announcement", {"created_at"}) >>

Down_ab55Short ==
  << DropTable("payment", {"user_id", "transaction_reference", "created_at"}),
     DropTable("event", {}),
     DropTable("announcement", {"created_at"}) >>

Down_ab55 == AccountsBack \o UsageBack \o ProjectsBack \o WorkspacesBack

\* 1eff9d79e209_update_payment_schema.py
Up_1eff ==
  << AddRequired("payment", {"currency"}),
     AddColumns("payment", {"payment_method", "flutterwave_id"}),
     AddRequired("payment", {"updated_at"}),
     CreateIndexes("payment", {"flutterwave_id"}) >>

Down_1eff ==
  << DropIndexes("payment", {"flutterwave_id"}),
     DropColumns("payment", {"updated_at", "flutterwave_id", "payment_method", "currency"}) >>

\* 2ff9d79e209_add_user_registration_fields.py
Up_2ff9 ==
  << AddColumns("user", {"nickname", "alternative_email", "gender", "fgce_set", "fgce_house"}) >>

Down_2ff9 ==
  << DropColumns("user", {"fgce_house", "fgce_set", "gender", "alternative_email", "nickname"}) >>

\* 25639850801c_increase_image_length.py
Up_2563 ==
  << Alter("event", {"image"}),
     Alter("system_settings", {"association_logo"}) >>

Down_2563 ==
  << Alter("system_settings", {"association_logo"}),
     Alter("event", {"image"}) >>

\* dc33e2a31bde_add_online_event_fields.py
Up_dc33 ==
  << AddColumns("event", {"is_online", "meeting_link"}) >>

Down_dc33 ==
  << DropColumns("event", {"meeting_link", "is_online"}) >>

\* 070ca04fb75a_rename_flutterwave_fields_to_paystack.py
Up_070c ==
  << AddColumns("payment", {"paystack_id"}),
     DropIndexes("payment", {"flutterwave_id"}),
     CreateIndexes("payment", {"paystack_id"}),
     DropColumns("payment", {"flutterwave_id"}),
     AddColumns("system_settings", {"paystack_public_key", "paystack_secret_key"}),
     Alter("system_settings", {"bank_name", "account_number", "account_name"}),
     DropColumns("system_settings", {"flutterwave_public_key", "flutterwave_secret_key"}),
     CreateIndexes("user", {"created_at"}) >>

Down_070c ==
  << DropIndexes("user", {"created_at"}),
     AddColumns("system_settings", {"flutterwave_secret_key", "flutterwave_public_key"}),
     Alter("system_settings", {"account_name", "account_number", "bank_name"}),
     DropColumns("system_settings", {"paystack_secret_key", "paystack_public_key"}),
     AddColumns("payment", {"flutterwave_id"}),
     DropIndexes("payment", {"paystack_id"}),
     CreateIndexes("payment", {"flutterwave_id"}),
     DropColumns("payment", {"paystack_id"}) >>

\* a1b2c3d4e5f6_add_receipt_and_rejection_to_payment.py
Up_a1b2 ==
  << AddColumns("payment", {"receipt_url", "rejection_reason"}),
     Alter("payment", {"status"}) >>

Down_a1b2 ==
  << DropColumns("payment", {"rejection_reason", "receipt_url"}),
     Alter("payment", {"status"}) >>
=============================================================================
