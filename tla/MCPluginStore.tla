---------------------------- MODULE MCPluginStore ---------------------------
(***************************************************************************)
(* Small instances of PluginStore: a plugin offered at one commit with two *)
(* trees (the host changed it) and at another with the second of them; and *)
(* a plugin with and without the entrypoint its manifest declares.         *)
(***************************************************************************)
EXTENDS PluginStoreInv

CONSTANTS viewer, exporter, c1, c2, manifest, tool, asset,
          m1, m2, m3, x1, x2, older, newer, view, export, p, q

MCFiles == {manifest, tool, asset}

MCBytes == {m1, m2, m3, x1, x2}

\* m1 and m3 declare one action and entrypoints that differ, m2 two actions and
\* only for the newer build. x1 and x2 are code and declare nothing.
MCMeaning ==
    [b \in MCBytes |->
        [engines    |-> IF b \in {m1, m3} THEN {older, newer} \cap Engines
                        ELSE IF b = m2 THEN {newer} \cap Engines ELSE {},
         actions    |-> IF b \in {m1, m3} THEN {view}
                        ELSE IF b = m2 THEN {view, export} ELSE {},
         entrypoint |-> IF b = m3 THEN asset ELSE tool]]

Offer(n, c, m, t, a) ==
    [name |-> n, commit |-> c,
     tree |-> [f \in MCFiles |-> CASE f = manifest -> m [] f = tool -> t [] f = asset -> a]]

ViewerOffers == {Offer(viewer, c1, m1, x1, NoFile), Offer(viewer, c1, m3, NoFile, x1),
                 Offer(viewer, c2, m3, NoFile, x1)}

AllOffers == ViewerOffers \cup {Offer(exporter, c1, m2, x2, NoFile),
                                Offer(exporter, c1, m2, NoFile, NoFile)}

=============================================================================
