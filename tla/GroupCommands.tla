---------------------------- MODULE GroupCommands ----------------------------
(* globus group                                                                *)
EXTENDS Scripts

\* The auth client is used without requires_login("auth").
MembershipClients ==
    Script(<<Login({"groups"}), Client("auth"), Client("groups")>>)

group_create ==
    Command("group create", <<Using("groups"), Write("groups", "create_group"), Show>>)

group_delete ==
    Command("group delete", <<Using("groups"), Write("groups", "delete_group"), Show>>)

group_list ==
    Command("group list", <<Using("groups"), Read("groups", "get_my_groups"), Show>>)

group_show ==
    Command("group show", <<Using("groups"), Read("groups", "get_group"), Show>>)

group_update ==
    Command("group update",
        <<Using("groups"), Read("groups", "get_group"), Reject,
          Write("groups", "update_group"), Show>>)

group_set_policies ==
    Command("group set-policies",
        <<Using("groups"), Read("groups", "get_group_policies"),
          Write("groups", "set_group_policies"), Show>>)

group_set_subscription_admin_verified ==
    Command("group set-subscription-admin-verified",
        <<Using("groups"), Write("groups", "set_subscription_admin_verified"), Show>>)

group_get_subscription_info ==
    Command("group get-subscription-info",
        <<Using("groups"), Read("groups", "get_group_by_subscription_id"), Show>>)

\* The group is looked up in text format; that it is not visible is no error.
group_get_by_subscription ==
    Command("group get-by-subscription",
        <<Using("groups"), Read("groups", "get_group_by_subscription_id"),
          ShowWithNames("groups", "get_group")>>)

group_join ==
    Command("group join",
        <<MembershipClients, Either(FindIdentity, Read("auth", "userinfo")),
          WriteOrError("groups", "batch_membership_action"), Show>>)

\* Without --identity: the memberships of the user, of which there may be none.
OwnMemberships == Script(<<Read("groups", "get_group"), Fail>>)

group_leave ==
    Command("group leave",
        <<MembershipClients, Either(FindIdentity, OwnMemberships),
          WriteOrError("groups", "batch_membership_action"), Show>>)

build_invite_actions == Either(FindIdentity, OwnMemberships)

InviteCommand(name) ==
    Command(name,
        <<MembershipClients, build_invite_actions,
          WriteOrError("groups", "batch_membership_action"), Show>>)
invite_accept == InviteCommand("group invite accept")
invite_decline == InviteCommand("group invite decline")

member_list ==
    Command("group member list", <<Using("groups"), Read("groups", "get_group"), Show>>)

MemberCommand(name, find) ==
    Command(name,
        <<MembershipClients, find, WriteOrError("groups", "batch_membership_action"),
          Show>>)
member_add == MemberCommand("group member add", FindIdentity)
member_approve == MemberCommand("group member approve", FindIdentity)
member_reject == MemberCommand("group member reject", FindIdentity)
member_remove == MemberCommand("group member remove", FindIdentity)

\* --provision-identity
member_invite ==
    MemberCommand("group member invite",
        Either(FindIdentity, Script(<<ProvisionIdentity, Reject>>)))

GroupCatalog ==
    {group_create, group_delete, group_list, group_show, group_update,
     group_set_policies, group_set_subscription_admin_verified,
     group_get_subscription_info, group_get_by_subscription, group_join, group_leave,
     invite_accept, invite_decline, member_list, member_add, member_approve,
     member_invite, member_reject, member_remove}
==============================================================================
