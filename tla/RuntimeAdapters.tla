--------------------------- MODULE RuntimeAdapters ---------------------------
(***************************************************************************)
(* The runtime adapters that turn what an agent runtime asks for into a    *)
(* proposed action and forward that action to the gateway.                 *)
(*                                                                         *)
(*   normalize_* -> context.bind -> ProposedAction -> to_runtime_action    *)
(*                                                                         *)
(* A proposed action is a function on field names.  Its "hash" is the      *)
(* digest bind took of the fields it lists; the runtime action carries the *)
(* fields to_runtime_action lists, and the hash.  Each adapter writes both *)
(* lists out by hand, and so does this module.  The fields are named as in *)
(* the runtime action; "surface" is also the source_kind of Gemini and the *)
(* method_mode of NOOA, "parameters" also the arguments of NOOA.           *)
(*                                                                         *)
(* canonical_digest hashes the JSON text of a value, and what JSON cannot  *)
(* write is hashed as its str(): Text[v] is that text, and two values may  *)
(* have one text.                                                          *)
(***************************************************************************)
EXTENDS Values

CONSTANTS
  Text,   \* per value the JSON text that is hashed for it
  Blank   \* a text that is empty once stripped

Substrates == {"bland", "cloudflare", "gemini", "claude", "nooa"}

BlandBound ==
  {"substrate", "surface", "organization_ref", "call_ref", "conversation_ref",
   "persona_ref", "pathway_ref", "pathway_version_ref", "node_ref", "channel",
   "release_ref", "memory_context_ref", "credential_context_fingerprint",
   "source_ref", "operation", "type", "target", "parameters"}

BlandForwarded ==
  {"type", "target", "parameters", "substrate", "surface", "source_ref",
   "operation", "organization_ref", "call_ref", "conversation_ref",
   "persona_ref", "pathway_ref", "pathway_version_ref", "node_ref", "channel",
   "release_ref", "memory_context_ref", "credential_context_fingerprint"}

CloudflareBound ==
  {"substrate", "surface", "account_ref", "deployment_ref",
   "durable_object_ref", "ai_gateway_ref", "workflow_instance_ref",
   "sandbox_ref", "resume_checkpoint_ref", "credential_context_fingerprint",
   "source_ref", "operation", "type", "target", "parameters"}

CloudflareForwarded ==
  {"type", "target", "parameters", "substrate", "surface", "source_ref",
   "operation", "account_ref", "deployment_ref", "durable_object_ref",
   "ai_gateway_ref", "workflow_instance_ref", "sandbox_ref",
   "resume_checkpoint_ref", "credential_context_fingerprint"}

GeminiBound ==
  {"substrate", "interaction_id", "environment_id", "background",
   "credential_context_fingerprint", "substrate_grant_ref", "surface",
   "source_ref", "tool_name", "type", "target", "parameters"}

GeminiForwarded ==
  {"type", "target", "parameters", "substrate", "surface", "source_ref",
   "tool_name", "interaction_id", "environment_id", "background",
   "credential_context_fingerprint", "substrate_grant_ref"}

ClaudeBound ==
  {"substrate", "environment_ref", "session_ref", "runner_ref", "runner_mode",
   "checkout_ref", "credential_context_fingerprint", "source_ref",
   "operation", "type", "target", "parameters"}

ClaudeForwarded ==
  {"type", "target", "parameters", "substrate", "source_ref", "operation",
   "environment_ref", "session_ref", "runner_ref", "runner_mode",
   "checkout_ref", "credential_context_fingerprint"}

NooaBound ==
  {"substrate", "agent_class", "agent_ref", "workspace_ref", "state_ref",
   "source_revision", "method_name", "surface", "signature", "type", "target",
   "parameters", "object_refs", "consequence_bearing", "state_mutation"}

\* That state mutation requires admission is state_mutation once more; that
\* references are resolved late and there is no direct path are constants.
NooaForwarded ==
  {"type", "target", "parameters", "substrate", "agent_class", "agent_ref",
   "workspace_ref", "state_ref", "source_revision", "method_name", "surface",
   "signature", "object_refs", "consequence_bearing", "state_mutation"}

Bound(p) ==
  CASE p["substrate"] = "bland"      -> BlandBound
    [] p["substrate"] = "cloudflare" -> CloudflareBound
    [] p["substrate"] = "gemini"     -> GeminiBound
    [] p["substrate"] = "claude"     -> ClaudeBound
    [] p["substrate"] = "nooa"       -> NooaBound

Forwarded(p) ==
  CASE p["substrate"] = "bland"      -> BlandForwarded
    [] p["substrate"] = "cloudflare" -> CloudflareForwarded
    [] p["substrate"] = "gemini"     -> GeminiForwarded
    [] p["substrate"] = "claude"     -> ClaudeForwarded
    [] p["substrate"] = "nooa"       -> NooaForwarded

-----------------------------------------------------------------------------
\* context.bind: hashing is taken to tell texts apart.
Digest(p) == [f \in Bound(p) |-> Text[p[f]]]

\* to_runtime_action
RuntimeAction(p) == [f \in Forwarded(p) \cup {"hash"} |-> p[f]]

\* The fields a context or a normaliser refuses to leave blank.
BlandRequired == {"organization_ref", "source_ref", "operation", "type", "target"}
CloudflareRequired == {"account_ref", "source_ref", "operation", "type", "target"}
GeminiRequired == {"interaction_id", "environment_id", "tool_name", "type", "target"}
ClaudeRequired == {"environment_ref", "session_ref", "source_ref", "operation",
                   "type", "target"}
NooaRequired == {"agent_class", "agent_ref", "workspace_ref", "state_ref",
                 "method_name", "signature", "type", "target"}

NoneBlank(p, fields) == \A f \in fields : p[f] # Blank

BlandSurfaces == {"custom_tool", "outbound_call", "message", "transfer"}

\* The surfaces of Bland fix what the action is; a custom tool names its own.
BlandSurface(p) ==
  \/ p["surface"] = "custom_tool" /\ p["operation"] = "invoke"
  \/ /\ p["surface"] = "outbound_call" /\ p["operation"] = "start_call"
     /\ p["type"] = "communication.call.start"
  \/ /\ p["surface"] = "message" /\ p["operation"] = "send_message"
     /\ p["type"] = "communication.message.send"
  \/ p["surface"] = "transfer" /\ p["type"] = "communication.transfer"

CloudflareSurface(p) == p["surface"] \in {"worker", "mcp", "sandbox", "workflow"}

\* A remote MCP call names its server, a required action comes from nowhere.
GeminiSurface(p) ==
  \/ p["surface"] = "requires_action" /\ p["source_ref"] = None
  \/ p["surface"] = "remote_mcp" /\ p["source_ref"] \notin {None, Blank}

\* A live object is passed by reference or by value, never under one name.
NooaSurface(p) ==
  /\ p["surface"] \in {"deterministic", "agentic"}
  /\ DOMAIN p["parameters"] \cap DOMAIN p["object_refs"] = {}
  /\ Blank \notin DOMAIN p["object_refs"]

\* What each adapter's normalisers let through.
BlandNormalised(p) ==
  p["substrate"] = "bland" /\ NoneBlank(p, BlandRequired) /\ BlandSurface(p)

CloudflareNormalised(p) ==
  /\ p["substrate"] = "cloudflare"
  /\ NoneBlank(p, CloudflareRequired) /\ CloudflareSurface(p)

GeminiNormalised(p) ==
  p["substrate"] = "gemini" /\ NoneBlank(p, GeminiRequired) /\ GeminiSurface(p)

ClaudeNormalised(p) == p["substrate"] = "claude" /\ NoneBlank(p, ClaudeRequired)

NooaNormalised(p) ==
  p["substrate"] = "nooa" /\ NoneBlank(p, NooaRequired) /\ NooaSurface(p)

\* p is what a normaliser returns: its hash is taken of what it is called with.
Normalised(p) ==
  /\ \/ BlandNormalised(p) \/ CloudflareNormalised(p) \/ GeminiNormalised(p)
     \/ ClaudeNormalised(p) \/ NooaNormalised(p)
  /\ p["hash"] = Digest(p)
=============================================================================
