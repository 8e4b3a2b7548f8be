------------------------------ MODULE Requests ------------------------------
(***************************************************************************)
(* The request handlers of endpoint.c: what each looks at in a message     *)
(* before it calls the renderer, and how it is answered when something is  *)
(* missing.  No state: a handler maps a message, and the callbacks that    *)
(* the renderer has, to an outcome.                                        *)
(*                                                                         *)
(* A message has the fields of pcrdr_msg.  Its target value is a number,   *)
(* its element a record of Element, its data and property one of the kinds *)
(* that the handlers tell apart.  The parser of messages (external) gives  *)
(* a message an element value exactly if it has an element type, and data  *)
(* exactly if it has a data type.                                          *)
(***************************************************************************)
EXTENDS Naturals, NoValue

Reserved == {"_first", "_last", "_active"}

Element(name, group, number) == [name |-> name, group |-> group, number |-> number]
NoElement == Element(Nil, Nil, Nil)
NumberOf(m) == m.element.number

-----------------------------------------------------------------------------
(***************************************************************************)
(* Outcomes: a response at once with a code and the handle of a page, or   *)
(* the call of a callback of the renderer, which gives the code.           *)
(***************************************************************************)
Responds(code, page) == [code |-> code, page |-> page, call |-> Nil]
Refuses(code) == Responds(code, 0)
Calls(callback, page) == [code |-> Nil, page |-> page, call |-> callback]

\* The first of the tests that fails refuses the message.
Given(cbs, callbacks, holds, outcome) ==
    IF ~(callbacks \subseteq cbs) THEN Refuses("NOT_IMPLEMENTED")
    ELSE IF ~holds THEN Refuses("BAD_REQUEST")
    ELSE outcome

OnWorkspace(m) == m.target = "workspace"
HasText(m, types) == m.dtype \in types /\ m.data = "text"
ByHandle(m) == m.etype = "handle"
ValidProperty(m) == m.property \notin {"none", "bad"}

\* The page a request about its contents is for.
PageTarget(m) == IF m.target \in {"plainwindow", "widget"} THEN m.value ELSE 0

\* The page a request about a window or a widget itself is for.
PageElement(m) == IF ByHandle(m) THEN NumberOf(m) ELSE 0

\* The parts of an identifier, where purc_check_and_make_plainwin_id or
\* purc_check_and_make_widget_id accepts it; of the names with an underscore
\* only the reserved ones are accepted.
ValidName(m) == m.etype = "id" /\ m.element.name \notin {Nil, "_other"}
IsReserved(m) == m.element.name \in Reserved

-----------------------------------------------------------------------------
(* Workspaces and groups                                                   *)

on_create_workspace(cbs, m) ==
    Given(cbs, {"create_workspace"}, m.dtype = "json" /\ m.data \in {"object", "blank", "method"},
          Calls("create_workspace", 0))

\* The test of the second callback is the wrong way round: a renderer that has
\* it is refused, and one that has only the first is called through NULL.
on_update_workspace(cbs, m) ==
    Given(cbs \ (IF "update_workspace" \in cbs THEN {"create_workspace"} ELSE {}),
          {"create_workspace"},
          PageElement(m) # 0 /\ ValidProperty(m) /\ m.dtype = "plain",
          Calls("update_workspace", 0))

on_destroy_workspace(cbs, m) ==
    Given(cbs \ (IF "destroy_workspace" \in cbs THEN {"create_workspace"} ELSE {}),
          {"create_workspace"}, PageElement(m) # 0, Calls("destroy_workspace", 0))

on_set_page_groups(cbs, m) ==
    Given(cbs, {"set_page_groups"}, OnWorkspace(m) /\ HasText(m, {"html", "plain"}),
          Calls("set_page_groups", 0))

on_add_page_groups(cbs, m) ==
    Given(cbs, {"set_page_groups", "add_page_groups"},
          OnWorkspace(m) /\ HasText(m, {"html", "plain"}), Calls("add_page_groups", 0))

on_remove_page_group(cbs, m) ==
    Given(cbs, {"set_page_groups", "remove_page_group"}, OnWorkspace(m) /\ m.etype = "id",
          Calls("remove_page_group", 0))

-----------------------------------------------------------------------------
(* Windows and widgets.  `found' is what find_page, or for a reserved name
   get_special_plainwin or get_special_widget, gives for the element.       *)

on_create_plain_window(cbs, m, found) ==
    Given(cbs, {}, OnWorkspace(m) /\ ValidName(m),
          IF found # 0 \/ (IsReserved(m) /\ "get_special_plainwin" \in cbs)
          THEN Responds("OK", found) ELSE Calls("create_plainwin", 0))

on_update_plain_window(cbs, m, found) ==
    LET page == CASE ByHandle(m) -> NumberOf(m) [] m.etype = "id" -> found [] OTHER -> 0
    IN Given(cbs, {},
             /\ OnWorkspace(m) /\ m.dtype # "void"
             /\ m.etype = "id" => ValidName(m)
             /\ page # 0
             /\ m.property = "none" => m.data \in {"object", "blank", "method"}
             /\ m.property # "bad",
             Calls("update_plainwin", page))

on_destroy_plain_window(cbs, m) ==
    Given(cbs, {}, OnWorkspace(m) /\ PageElement(m) # 0,
          Calls("destroy_plainwin", PageElement(m)))

on_create_widget(cbs, m, found) ==
    Given(cbs, {"create_widget"}, OnWorkspace(m) /\ ValidName(m) /\ m.element.group # Nil,
          IF found # 0 \/ (IsReserved(m) /\ "get_special_widget" \in cbs)
          THEN Responds("OK", found) ELSE Calls("create_widget", 0))

on_update_widget(cbs, m) ==
    Given(cbs, {"create_widget", "update_widget"},
          OnWorkspace(m) /\ PageElement(m) # 0 /\ ValidProperty(m) /\ m.dtype # "void",
          Calls("update_widget", PageElement(m)))

on_destroy_widget(cbs, m) ==
    Given(cbs, {"create_widget", "destroy_widget"}, OnWorkspace(m) /\ PageElement(m) # 0,
          Calls("destroy_widget", PageElement(m)))

-----------------------------------------------------------------------------
(* The contents of pages and their owners                                  *)

\* The handle of the coroutine may be 0.
on_load(cbs, m) ==
    Given(cbs, {}, HasText(m, {"html", "plain"}) /\ PageTarget(m) # 0 /\ ByHandle(m),
          Calls("load", PageTarget(m)))

on_load_from_url(cbs, m) ==
    Given(cbs, {}, HasText(m, {"plain"}) /\ PageTarget(m) # 0 /\ ByHandle(m),
          Calls("load_from_url", PageTarget(m)))

write_xxx(cbs, m) ==
    Given(cbs, {},
          /\ HasText(m, {"html", "plain"}) /\ PageTarget(m) # 0
          /\ m.op = "writeBegin" => ByHandle(m),
          Calls("write", PageTarget(m)))

on_register(cbs, m) ==
    Given(cbs, {}, PageTarget(m) # 0 /\ PageElement(m) # 0, Calls("register_crtn", PageTarget(m)))

on_revoke(cbs, m) ==
    Given(cbs, {}, PageTarget(m) # 0 /\ PageElement(m) # 0, Calls("revoke_crtn", PageTarget(m)))

-----------------------------------------------------------------------------
(* Documents                                                               *)

update_dom(cbs, m) ==
    IF m.target = "dom" /\ m.value = 0 THEN Refuses("NOT_FOUND")
    ELSE Given(cbs, {},
               /\ m.target = "dom"
               /\ m.op \notin {"erase", "clear"} => HasText(m, {"plain", "html"})
               /\ m.etype # "void",
               Calls("update_dom", m.value))

\* A property or a method is for the document in a page, or for what is above
\* documents: the session, the workspace or a page.
InDomOrSession(cbs, m, holds, in_dom, in_session) ==
    IF ~holds THEN Refuses("BAD_REQUEST")
    ELSE
    CASE m.target = "dom" -> Given(cbs, {in_dom}, m.value # 0, Calls(in_dom, m.value))
      [] m.target \in {"session", "workspace", "plainwindow", "widget"} ->
            Given(cbs, {in_session}, TRUE, Calls(in_session, m.value))
      [] OTHER -> Refuses("BAD_REQUEST")

\* Mutant: the method is not looked for.
CallMethodAnyway(cbs, m) ==
    InDomOrSession(cbs, m, m.dtype = "json", "call_method_in_dom", "call_method_in_session")

on_call_method(cbs, m) ==
    InDomOrSession(cbs, m, m.dtype = "json" /\ m.data = "method",
                   "call_method_in_dom", "call_method_in_session")

on_get_property(cbs, m) ==
    InDomOrSession(cbs, m, m.property # "none",
                   "get_property_in_dom", "get_property_in_session")

on_set_property(cbs, m) ==
    InDomOrSession(cbs, m, m.dtype # "void" /\ m.property # "none",
                   "set_property_in_dom", "set_property_in_session")

-----------------------------------------------------------------------------
(***************************************************************************)
(* on_got_message.  startSession and endSession are in Endpoints.          *)
(***************************************************************************)
DomOperations == {"append", "prepend", "insertAfter", "insertBefore", "displace",
                  "clear", "erase", "update"}
WriteOperations == {"writeBegin", "writeMore", "writeEnd"}

find_request_handler(cbs, m, found) ==
    CASE m.op = "createWorkspace"    -> on_create_workspace(cbs, m)
      [] m.op = "updateWorkspace"    -> on_update_workspace(cbs, m)
      [] m.op = "destroyWorkspace"   -> on_destroy_workspace(cbs, m)
      [] m.op = "setPageGroups"      -> on_set_page_groups(cbs, m)
      [] m.op = "addPageGroups"      -> on_add_page_groups(cbs, m)
      [] m.op = "removePageGroup"    -> on_remove_page_group(cbs, m)
      [] m.op = "createPlainWindow"  -> on_create_plain_window(cbs, m, found)
      [] m.op = "updatePlainWindow"  -> on_update_plain_window(cbs, m, found)
      [] m.op = "destroyPlainWindow" -> on_destroy_plain_window(cbs, m)
      [] m.op = "createWidget"       -> on_create_widget(cbs, m, found)
      [] m.op = "updateWidget"       -> on_update_widget(cbs, m)
      [] m.op = "destroyWidget"      -> on_destroy_widget(cbs, m)
      [] m.op = "load"               -> on_load(cbs, m)
      [] m.op = "loadFromURL"        -> on_load_from_url(cbs, m)
      [] m.op \in WriteOperations    -> write_xxx(cbs, m)
      [] m.op = "register"           -> on_register(cbs, m)
      [] m.op = "revoke"             -> on_revoke(cbs, m)
      [] m.op \in DomOperations      -> update_dom(cbs, m)
      [] m.op = "callMethod"         -> on_call_method(cbs, m)
      [] m.op = "getProperty"        -> on_get_property(cbs, m)
      [] m.op = "setProperty"        -> on_set_property(cbs, m)
      [] OTHER                       -> Refuses("BAD_REQUEST")
=============================================================================
