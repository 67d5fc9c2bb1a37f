------------------------------ MODULE MCConfig ------------------------------
(* A switch, a string, and the color of a plugin, which comes first in the    *)
(* file; the stream reads two lines and a half at once.                       *)
EXTENDS Config

CONSTANTS color, switch, title, red, no, plain, cited

MCKeyOrder == <<color, switch, title>>
MCKey == ToSet(MCKeyOrder)
MCValue == {red, no, plain, cited}

MCDefault == (color :> red) @@ (switch :> no) @@ (title :> plain)

MCValid ==
  (color :> {red, plain}) @@ (switch :> {no, red}) @@ (title :> {plain, cited})

\* Files with comments, short spellings, a key set twice, a value that is not
\* accepted, and one longer than the buffer.
MCEdited ==
  {<<Short(switch, no)>>,
   <<Comment, Short(title, plain)>>,
   <<Short(switch, red), Short(title, plain)>>,
   <<First(switch), Second(red), Comment, Short(switch, no)>>,
   <<First(title), Second(red)>>,
   <<Comment, First(title), Second(plain), First(color), Second(plain), Short(switch, red)>>}
=============================================================================
