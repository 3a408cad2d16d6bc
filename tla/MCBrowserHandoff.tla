-------------------------- MODULE MCBrowserHandoff --------------------------
(* BrowserHandoff with one request of four kinds, the test prompt of the      *)
(* settings page and two spellings of one file name.                          *)
EXTENDS BrowserHandoff, TLC

MCAsk(type, url) == [type |-> type, url |-> url, name |-> "a"]
MCCaptures == {MCAsk("prompt_download", "u1"), MCAsk("enqueue_download", "u2"),
               MCAsk("enqueue_by_user", "u1"),
               MCAsk("adopt_browser_download", "u2")}
MCTest     == MCAsk("prompt_download", "u1")
MCFolded   == [n \in Names |-> "a"]
MCBatches  == {<<[url |-> "u2", name |-> "a"], [url |-> "u1", name |-> "a"]>>}
=============================================================================
