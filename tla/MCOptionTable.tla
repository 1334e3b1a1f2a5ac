--------------------------- MODULE MCOptionTable ----------------------------
(***************************************************************************)
(* A scanner with a button that is reset when it is read and a string      *)
(* option; the configurations have up to three actions for each.           *)
(***************************************************************************)
EXTENDS OptionTable

Kinds == <<"button", "string", "skipped">>
Resets == {1}

Press(options) == [filter |-> options, from |-> {0}, to |-> {1}]
ReleaseOf(options) == [filter |-> options, from |-> {1}, to |-> {0}]
\* An empty from-value matches every string.
Any(options) == [filter |-> options, from |-> {0, 1}, to |-> {1}]
Sec(acts, funs) == [actions |-> acts, functions |-> funs]

Sections == {
  \* one action, one function on the other option
  <<Sec(<<Press({1})>>, <<{2, 3}>>)>>,
  \* two actions of the button, overridden or not by the device's section
  <<Sec(<<Press({1}), Press({1, 3})>>, <<>>),
    Sec(<<ReleaseOf({2})>>, <<{2}>>)>>,
  \* more matches than the table has entries
  <<Sec(<<Press({1, 2}), ReleaseOf({2})>>, <<{1}>>),
    Sec(<<Press({1, 2})>>, <<{1, 2}>>)>>,
  \* the function is a button, the action is not
  <<Sec(<<ReleaseOf({2})>>, <<{1}>>)>>,
  \* nothing matches in the global section
  <<Sec(<<>>, <<>>), Sec(<<Any({2}), Press({1})>>, <<>>)>> }

SaneConfigs ==
  [engine: {"sane"}, multiple: BOOLEAN, sections: Sections]
\* scanbuttond's table holds what these configurations match.
ScbtnConfigs ==
  [engine: {"scanbuttond"}, multiple: {FALSE}, sections: Sections]
  \cup {[engine |-> "scanbuttond", multiple |-> TRUE,
         sections |-> <<Sec(<<Press({1}), Press({1})>>, <<>>)>>]}
PassConfigs == SaneConfigs \cup ScbtnConfigs
=============================================================================
