---------------------------- MODULE MCLazyLevels ----------------------------
(***************************************************************************)
(* Instances of LazyLevels.                                                *)
(***************************************************************************)
EXTENDS LazyLevels
=============================================================================
