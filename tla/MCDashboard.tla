---------------------------- MODULE MCDashboard ----------------------------
EXTENDS Dashboard

\* The others differ from one of these in nothing that is told apart.
MCShown == Pages \ {PluginCenter, AdminInvitationList}
=============================================================================
