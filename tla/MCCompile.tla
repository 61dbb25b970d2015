------------------------------ MODULE MCCompile ------------------------------
(* The directories that TLC lets go missing between two runs.              *)
EXTENDS Compile

MCSomeMissing == {Home(Sregex), Home(LuaJIT)}
=============================================================================
