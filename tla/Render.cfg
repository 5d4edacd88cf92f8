\* Items of every kind and the types over two small ones.  The page is
\* written once, so the run ends.
SPECIFICATION PageSpec
CONSTANT Subjects <- MCSubjects
CONSTANT Alphabet <- MCAlphabet
CONSTANT Height <- MCHeight
INVARIANT ReadsBack
INVARIANT DocsShownOnce
INVARIANT HeadingsHaveContent
CHECK_DEADLOCK FALSE
