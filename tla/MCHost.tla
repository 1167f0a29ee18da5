-------------------------------- MODULE MCHost --------------------------------
(* Host with two versions of a topology of two tiers: one has a second edge    *)
(* node and a slower link.  The cloud node may be there already.               *)
EXTENDS Host, TLC

CONSTANTS e1, e2, c1, fast, slow

MCTier == "edge" :> "Edge" @@ "cloud" :> "Cloud"

On(node, site) == [node |-> node, site |-> site]

MCDocs ==
  {[nodes |-> <<On(e1, "edge"), On(c1, "cloud")>>,
    links |-> {"Edge", "Cloud"} :> fast],
   [nodes |-> <<On(c1, "cloud"), On(e1, "edge"), On(e2, "edge")>>,
    links |-> {"Edge", "Cloud"} :> slow]}

=============================================================================
