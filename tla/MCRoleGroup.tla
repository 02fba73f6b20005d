----------------------------- MODULE MCRoleGroup -----------------------------
EXTENDS RoleGroup
=============================================================================
