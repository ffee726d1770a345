------------------------ MODULE MCShaderPrograms --------------------------
(* Models of ShaderPrograms for TLC.                                       *)
EXTENDS ShaderPrograms, TLC

CONSTANTS m1, m2, n1

MCModules == {m1, m2}
MCNames == {n1}
MCGiven == {<<"u", Intersection>>, <<"u", Compute>>, <<"t", ClosestHit>>}
MCSymmetry == Permutations(MCModules)

Header == <<1, 2, 3, 4, 5>>
Instruction(op, n) == op + 65536 * n
Declare == Instruction(OpCapability, 2)

Plain == Header \o <<Instruction(9, 1)>>

\* Codes that declare the capability and others, or seem to, or break off.
MCCodes == {Plain, Header, SubSeq(Header, 1, 4)} \cup {Header \o body : body \in {
  <<Declare, StoragePushConstant8, Instruction(9, 1)>>,
  <<Declare, 7, Declare, StoragePushConstant8>>,
  <<Declare, StoragePushConstant8, Declare, StoragePushConstant8>>,
  <<Instruction(9, 3), Declare, StoragePushConstant8>>,
  <<Instruction(OpCapability, 3), StoragePushConstant8, 7>>,
  <<Declare, StoragePushConstant8, 0>>,
  <<Declare, StoragePushConstant8, Instruction(9, 2)>>,
  <<Instruction(9, 1), Declare>>}}
MCFollowed == {Plain}
===========================================================================
