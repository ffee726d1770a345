------------------------- MODULE MCDescriptorTables -------------------------
(* Model of DescriptorTables for TLC.                                      *)
EXTENDS DescriptorTables

CONSTANTS i1, i2, i3, s1, s2

MCImages == {i1, i2, i3}
MCSamplers == {s1, s2}
MCSymmetry == Permutations(MCImages) \cup Permutations(MCSamplers)

\* The formats of the header, in two classes: those toVulkan() has a case for,
\* and VKN_TEXEL_FORMAT_R8 and VKN_TEXEL_FORMAT_R32F.
MCFormats == {"RGBA8", "R8"}
MCHandled == {"RGBA8"}
=============================================================================
