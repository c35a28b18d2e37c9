--------------------------- MODULE MCInterpreter ---------------------------
(***************************************************************************)
(* Small programs: a main file of a few lines, two files that it calls and *)
(* two macros that it executes, with one statement in most of the bodies.  *)
(***************************************************************************)
EXTENDS InterpreterFlow

do == [op |-> "command"]
stop == [op |-> "stop"]
return == [op |-> "return"]
call(f) == [op |-> "call", file |-> f]
exec(m) == [op |-> "exec", macro |-> m]
if(body) == [op |-> "if", body |-> body]
elseif(body) == [op |-> "elseif", body |-> body]
else(body) == [op |-> "else", body |-> body]
while(body) == [op |-> "while", body |-> body]

(***************************************************************************)
(* A chain of branches, with b in one of them.                             *)
(***************************************************************************)
Chains(b) == {<<if(b)>>, <<if(b), else(<<do>>)>>,
              <<if(<<do>>), elseif(b), else(<<>>)>>,
              <<if(<<>>), elseif(<<do>>), else(b)>>}

Each(code) == [i \in DOMAIN code |-> <<code[i]>>]

Program(main, f, g, m, n) ==
  [files |-> [main |-> main, f |-> f, g |-> g, h |-> <<>>], macros |-> [m |-> m, n |-> n]]

(***************************************************************************)
(* Every statement inside of every other; RETURN and STOP only in files.   *)
(***************************************************************************)
MCNested ==
  LET inner == {<<exec("m")>>, <<call("f")>>, <<do, while(<<do>>)>>,
                <<if(<<call("f")>>), else(<<exec("m")>>)>>}
      outer == UNION {Chains(b) : b \in inner} \union {<<while(b)>> : b \in inner}
      last == {<<return>>, <<stop>>, <<call("g"), do>>}
  IN  {Program(<<c>> \o Each(<<do>> \o e), Each(<<do>> \o e \o <<do>>),
               Each(<<if(<<do>>), else(<<do>>)>>), d, <<do>>) :
         c \in outer, e \in last, d \in {<<do>>} \union Chains(<<exec("n")>>)}

(***************************************************************************)
(* RETURN and STOP anywhere, no WHILE, and files four deep.                *)
(***************************************************************************)
MCEnding ==
  LET inner == {<<return, do>>, <<stop, do>>, <<exec("m"), do>>, <<call("f"), do>>,
                <<return, call("f")>>}
      outer == UNION {Chains(b) : b \in inner}
  IN  {Program(<<c, <<do>>>>, Each(<<d, do>>), Each(<<call("h"), do>>), <<d, do>>, <<do>>) :
         c \in outer, d \in {return, stop, if(<<stop>>), call("g")}}

MCAll == MCNested \union MCEnding

MCStop == {Program(<<<<if(<<stop>>), do>>>>, <<>>, <<>>, <<>>, <<>>)}

MCStopWhile == {Program(<<<<while(<<if(<<do>>), stop>>)>>>>, <<>>, <<>>, <<>>, <<>>)}

MCReturn ==
  {Program(<<<<call("f")>>>>, <<<<exec("m")>>, <<do>>>>, <<<<do>>>>,
           <<return, call("g")>>, <<>>)}

MCDeep ==
  {Program(<<<<call("f")>>, <<do>>>>, <<<<call("g")>>, <<do>>>>, <<<<do>>>>, <<>>, <<>>)}

MCElse ==
  {Program(<<<<if(<<if(<<do>>), do, else(<<do>>)>>)>>>>, <<>>, <<>>, <<>>, <<>>)}
=============================================================================
