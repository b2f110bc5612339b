-------------------------- MODULE MCSettingsStore --------------------------
(* Instances of SettingsStore for TLC. *)
EXTENDS SettingsStore, TLC

CONSTANTS s0, s1, s2

MCSettings == {s0, s1, s2}

(* The two contents updates write are interchangeable; s0 is what a        *)
(* missing file stands for.                                                *)
MCSymmetry == Permutations({s1, s2})
=============================================================================
