---------------------------- MODULE GatewayRoutes ----------------------------
(***************************************************************************)
(* What api-gateway serves: for every handler its route, who may call it,  *)
(* whether it decodes a body, where each field of the call it makes comes  *)
(* from, and the status of its success.  Values are not modelled: "body",  *)
(* "path", "query" and "cookie" are the client's, "claims" is the answer   *)
(* of ValidateAccessToken, "bearer" the token extractToken finds.          *)
(***************************************************************************)
EXTENDS Statuses, Sequences

\* access: "anyone", "user" behind requireAuth, "admin" behind requireRole.
Route(method, csrf, access) == [method |-> method, csrf |-> csrf, access |-> access]

Open(method)          == Route(method, FALSE, "anyone")
Guarded(method)       == Route(method, TRUE, "anyone")
Protected(method)     == Route(method, method # "GET", "user")
Admin(method)         == Route(method, method # "GET", "admin")

\* Router, by handler.
Router ==
  [h \in {"Health", "JWKS", "CSRF"} |-> Open("GET")]
  @@ [h \in {"Register", "VerifyOTP", "Login", "RefreshToken", "Logout", "ForgotPassword",
             "ResetPassword"} |-> Guarded("POST")]
  @@ [h \in {"MobileLogin", "MobileRefresh", "MobileLogout"} |-> Open("POST")]
  @@ [h \in {"Me", "TreeMenus", "ListGroups", "GetGroup", "ListMembers", "ListInvitations",
             "ListCategories", "ListPersonalTransactions", "GetPersonalTransaction",
             "ListGroupTransactions", "GetGroupTransaction", "ListSettlements",
             "GetGroupBalances"} |-> Protected("GET")]
  @@ [h \in {"ChangePassword", "CreateGroup", "AddMember", "InviteMember", "RespondInvitation",
             "CreatePersonalTransaction", "CreateGroupTransaction",
             "CreateSettlement"} |-> Protected("POST")]
  @@ [h \in {"UpdateGroup"} |-> Protected("PATCH")]
  @@ [h \in {"DeleteGroup", "RemoveMember", "DeletePersonalTransaction",
             "DeleteGroupTransaction"} |-> Protected("DELETE")]
  @@ [h \in {"ListMenus", "GetMenu"} |-> Admin("GET")]
  @@ [h \in {"CreateMenu", "CreateCategory"} |-> Admin("POST")]
  @@ [h \in {"UpdateMenu"} |-> Admin("PATCH")]
  @@ [h \in {"DeleteMenu"} |-> Admin("DELETE")]

Service == {"none", "auth", "group", "transaction"}

\* passes: the fields of the upstream request, by where they come from.
Handler(service, decodes, success, passes) ==
  [service |-> service, decodes |-> decodes, success |-> success, passes |-> passes]

Reads(service, passes)   == Handler(service, FALSE, 200, passes)
Deletes(service, passes) == Handler(service, FALSE, 200, passes)
Updates(service, passes) == Handler(service, TRUE, 200, passes)
Creates(service, passes) == Handler(service, TRUE, 201, passes)

OpenHandlers ==
  [Health |-> Reads("none", {}), JWKS |-> Reads("auth", {}), CSRF |-> Reads("none", {})]

RegistrationHandlers ==
  [Register  |-> Creates("auth", {<<"fullname", "body">>, <<"email", "body">>,
                                  <<"password", "body">>}),
   VerifyOTP |-> Updates("auth", {<<"email", "body">>, <<"otp", "body">>,
                                  <<"purpose", "body">>})]

CookieHandlers ==
  [Login        |-> Updates("auth", {<<"email", "body">>, <<"password", "body">>}),
   RefreshToken |-> Reads("auth", {<<"refresh_token", "cookie">>}),
   Logout       |-> Reads("auth", {<<"access_token", "bearer">>, <<"refresh_token", "cookie">>})]

PasswordHandlers ==
  [ForgotPassword |-> Updates("auth", {<<"email", "body">>}),
   ResetPassword  |-> Updates("auth", {<<"email", "body">>, <<"otp", "body">>,
                                       <<"new_password", "body">>}),
   ChangePassword |-> Updates("auth", {<<"user_id", "claims">>, <<"current_password", "body">>,
                                       <<"new_password", "body">>}),
   Me             |-> Reads("auth", {<<"user_id", "claims">>})]

MobileHandlers ==
  [MobileLogin   |-> Updates("auth", {<<"email", "body">>, <<"password", "body">>}),
   MobileRefresh |-> Updates("auth", {<<"refresh_token", "body">>}),
   MobileLogout  |-> Updates("auth", {<<"access_token", "bearer">>, <<"refresh_token", "body">>})]

MenuFields == {<<f, "body">> : f \in {"code", "name", "route", "icon", "parent_id",
                                      "sort_order", "is_active"}}

MenuHandlers ==
  [ListMenus  |-> Reads("auth", {}),
   TreeMenus  |-> Reads("auth", {}),
   GetMenu    |-> Reads("auth", {<<"id", "path">>}),
   CreateMenu |-> Creates("auth", MenuFields),
   UpdateMenu |-> Updates("auth", {<<"id", "path">>} \cup MenuFields),
   DeleteMenu |-> Deletes("auth", {<<"id", "path">>})]

GroupHandlers ==
  [ListGroups  |-> Reads("group", {<<"user_id", "claims">>, <<"include_inactive", "query">>}),
   CreateGroup |-> Creates("group", {<<"name", "body">>, <<"description", "body">>,
                                     <<"creator_user_id", "claims">>}),
   GetGroup    |-> Reads("group", {<<"id", "path">>}),
   UpdateGroup |-> Updates("group", {<<"id", "path">>, <<"name", "body">>,
                                     <<"description", "body">>, <<"is_active", "body">>}),
   DeleteGroup |-> Deletes("group", {<<"id", "path">>})]

MemberHandlers ==
  [ListMembers  |-> Reads("group", {<<"group_id", "path">>}),
   AddMember    |-> Creates("group", {<<"group_id", "path">>, <<"user_id", "body">>,
                                      <<"role", "body">>}),
   RemoveMember |-> Deletes("group", {<<"group_id", "path">>, <<"user_id", "path">>})]

InvitationHandlers ==
  [InviteMember |->
     Creates("group", {<<"group_id", "path">>, <<"invited_user_id", "body">>,
                       <<"invited_by", "claims">>, <<"role", "body">>, <<"expired_at", "body">>}),
   ListInvitations   |-> Reads("group", {<<"group_id", "path">>}),
   RespondInvitation |-> Updates("group", {<<"invitation_id", "path">>, <<"accepted", "body">>})]

PageFields == {<<"limit", "query">>, <<"offset", "query">>}
FilterFields ==
  PageFields \cup {<<f, "query">> : f \in {"from", "to", "type", "category_id"}}
EntryFields ==
  {<<f, "body">> : f \in {"category_id", "type", "title", "amount", "currency",
                          "transaction_date", "note"}}

PersonalHandlers ==
  [CreateCategory |-> Creates("transaction", {<<"code", "body">>, <<"name", "body">>,
                                              <<"description", "body">>}),
   ListCategories |-> Reads("transaction", {<<"include_inactive", "query">>}),
   CreatePersonalTransaction |->
     Creates("transaction", {<<"user_id", "claims">>} \cup EntryFields),
   GetPersonalTransaction |->
     Reads("transaction", {<<"id", "path">>, <<"user_id", "claims">>}),
   ListPersonalTransactions |->
     Reads("transaction", {<<"user_id", "claims">>} \cup FilterFields),
   DeletePersonalTransaction |->
     Deletes("transaction", {<<"id", "path">>, <<"user_id", "claims">>})]

\* The group of the path is not passed where a transaction is named.
GroupTransactionHandlers ==
  [CreateGroupTransaction |->
     Creates("transaction", {<<"group_id", "path">>, <<"created_by", "claims">>,
                             <<"payments", "body">>, <<"splits", "body">>} \cup EntryFields),
   GetGroupTransaction |->
     Reads("transaction", {<<"id", "path">>, <<"user_id", "claims">>}),
   ListGroupTransactions |->
     Reads("transaction", {<<"group_id", "path">>, <<"user_id", "claims">>} \cup FilterFields),
   DeleteGroupTransaction |->
     Deletes("transaction", {<<"id", "path">>, <<"user_id", "claims">>})]

SettlementHandlers ==
  [CreateSettlement |->
     Creates("transaction",
             {<<"group_id", "path">>, <<"created_by", "claims">>}
               \cup {<<f, "body">> : f \in {"from_user_id", "to_user_id", "amount", "currency",
                                            "settled_at", "note"}}),
   ListSettlements |->
     Reads("transaction", {<<"group_id", "path">>, <<"user_id", "claims">>} \cup PageFields),
   GetGroupBalances |->
     Reads("transaction", {<<"group_id", "path">>, <<"user_id", "claims">>,
                           <<"currency", "query">>})]

Handlers ==
  OpenHandlers @@ RegistrationHandlers @@ CookieHandlers @@ PasswordHandlers @@ MobileHandlers
    @@ MenuHandlers @@ GroupHandlers @@ MemberHandlers @@ InvitationHandlers @@ PersonalHandlers
    @@ GroupTransactionHandlers @@ SettlementHandlers

\* Every route has its handler.  Who the caller is comes from the token alone,
\* wherever a call names him, and only where the route asks for a token.
ASSUME CallersComeFromTokens ==
  /\ DOMAIN Router = DOMAIN Handlers
  /\ \A h \in DOMAIN Handlers :
       /\ \A field \in {"creator_user_id", "created_by", "invited_by"} :
            \A origin \in {"body", "path", "query"} : <<field, origin>> \notin Handlers[h].passes
       /\ (\E f \in Handlers[h].passes : f[2] = "claims") => Router[h].access # "anyone"

=============================================================================
