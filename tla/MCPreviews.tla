------------------------------ MODULE MCPreviews ------------------------------
EXTENDS Previews

\* Two directories whose servers share a port, and one whose server is refused.
MCHas == [web |-> {"package.json", "Makefile"}, api |-> {"Makefile"}, admin |-> {"rails"}]
MCDirs == DOMAIN MCHas
=============================================================================
