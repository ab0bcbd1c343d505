------------------------------- MODULE Services -------------------------------
(***************************************************************************)
(* The parts of Fuzit that talk to another process, side by side: the host *)
(* of a plugin, the MCP server, the editor extension and the GitHub jobs.  *)
(* In the code they run in different processes and share no state, so one  *)
(* of them runs in each behaviour.                                         *)
(***************************************************************************)
EXTENDS PluginClient, McpServer, EditorTasks, EditorCommands, GitHub

VARIABLE service  \* which of them runs

ServicesInit ==
  /\ service \in {"plugin", "mcp", "tasks", "commands", "github"}
  /\ PluginInit /\ McpInit /\ TasksInit /\ CommandsInit /\ GitHubInit

ServicesNext ==
  /\ UNCHANGED service
  /\ \/ /\ service = "plugin" /\ PluginNext
        /\ UNCHANGED <<mcpVars, taskVars, commandVars, githubVars>>
     \/ /\ service = "mcp" /\ McpNext
        /\ UNCHANGED <<pluginVars, taskVars, commandVars, githubVars>>
     \/ /\ service = "tasks" /\ TasksNext
        /\ UNCHANGED <<pluginVars, mcpVars, commandVars, githubVars>>
     \/ /\ service = "commands" /\ CommandsNext
        /\ UNCHANGED <<pluginVars, mcpVars, taskVars, githubVars>>
     \/ /\ service = "github" /\ GitHubNext
        /\ UNCHANGED <<pluginVars, mcpVars, taskVars, commandVars>>

servicesVars == <<service, pluginVars, mcpVars, taskVars, commandVars, githubVars>>

ServicesSpec ==
  ServicesInit /\ [][ServicesNext]_servicesVars /\ PluginFairness /\ GitHubFairness

ServicesTypeOK == PluginTypeOK /\ McpTypeOK /\ TasksTypeOK /\ CommandsTypeOK /\ GitHubTypeOK

=============================================================================
