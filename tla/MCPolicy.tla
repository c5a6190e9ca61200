------------------------------- MODULE MCPolicy -------------------------------
(***************************************************************************)
(* Small instances of PolicyReload for TLC.  A wide network holds two      *)
(* clients, of which one has an entry of its own; one entry is no network; *)
(* one client is in no network.  A file breaks off before the access lists *)
(* or inside the blacklist, which comes last in default_config.yaml.       *)
(***************************************************************************)
EXTENDS PolicyReload, TLC

CONSTANTS wide, narrow, typo, inner, other, stranger

MCClients == {inner, other, stranger}
MCEntries == {wide, narrow, typo}
MCMembers == (wide :> {inner, other}) @@ (narrow :> {inner})

Lists(white, black) == [white |-> white, black |-> black]

MCPolicies ==
  {Lists({wide, typo}, {narrow}), Lists({narrow}, {wide, typo})}

MCPartsOf ==
  [p \in MCPolicies |->
     {Unreadable, Lists({}, {})} \union {Lists(p.white, b) : b \in SUBSET p.black}]

(* Every policy refuses the inner client. *)
MCUnbroken == [p \in MCPolicies |-> {Unreadable}]

===============================================================================
