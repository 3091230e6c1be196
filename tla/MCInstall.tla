----------------------------- MODULE MCInstall ------------------------------
(* Bounds for Install: every option alone and together with others.        *)
EXTENDS Install

Run(format, force, isoSource, own) ==
  [format |-> format, force |-> force, iso |-> isoSource, own |-> own]

MCOptions == {Run(TRUE, FALSE, FALSE, FALSE), Run(TRUE, FALSE, TRUE, FALSE),
              Run(TRUE, FALSE, FALSE, TRUE),  Run(FALSE, FALSE, FALSE, FALSE),
              Run(FALSE, TRUE, FALSE, FALSE), Run(FALSE, TRUE, TRUE, TRUE)}
=============================================================================
