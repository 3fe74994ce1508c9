----------------------------- MODULE Storefront -----------------------------
(***************************************************************************)
(* Cart and checkout of the Angular storefront: CartService, CartComponent   *)
(* and CheckoutComponent in the tabs of one browser.                        *)
(*                                                                         *)
(* A tab reads the cart from localStorage when it starts and overwrites it   *)
(* with every change.  finalizar sends the order and keeps the button off     *)
(* through a flag of the component; the answer arrives later even when the    *)
(* component is gone, empties the tab's cart and starts the timer that        *)
(* navigates to the catalogue.                                              *)
(***************************************************************************)
EXTENDS Integers, Sequences

CONSTANTS
    Tabs,        \* tabs of the browser, sharing localStorage
    Goods,       \* products
    Least,       \* quantidadeMinima of each product
    MaxQty,      \* bound: quantity of a line
    MaxPending   \* bound: orders and redirects of a tab in flight

ASSUME StorefrontConstants ==
    Least \in [Goods -> Nat \ {0}] /\ MaxQty \in Nat /\ MaxPending \in Nat

Pages == {"closed", "catalogo", "carrinho", "checkout"}
CartLine == [good : Goods, qty : Nat]

VARIABLES
    stored,     \* localStorage.logoca_cart
    cart,       \* itemsSubject of each tab
    page,       \* page each tab shows
    loading,    \* the flag of the CheckoutComponent shown
    pending,    \* criarPedido calls not answered: items sent, and whether the
                \* component that sent them is still shown
    redirects,  \* timers that will navigate to /catalogo
    restless,   \* history: tabs that have left a checkout while it was loading
    outdated    \* history: open tabs since whose last load or store another tab stored

storefrontVars == <<stored, cart, page, loading, pending, redirects, restless, outdated>>

---------------------------------------------------------------------------
Open(t) == page[t] # "closed"
HasLine(items, g) == \E i \in DOMAIN items : items[i].good = g

\* itemsSubject.next and persist; no tab listens to what another one stores.
SetCart(t, items) ==
    /\ cart' = [cart EXCEPT ![t] = items]
    /\ stored' = items
    /\ outdated' = (outdated \cup {u \in Tabs : Open(u)}) \ {t}

\* The component shown by t is destroyed.
LeavePage(t, next) ==
    /\ page' = [page EXCEPT ![t] = next]
    /\ loading' = [loading EXCEPT ![t] = FALSE]
    /\ pending' = [pending EXCEPT ![t] = [i \in DOMAIN @ |-> [@[i] EXCEPT !.shown = FALSE]]]
    /\ restless' = IF loading[t] THEN restless \cup {t} ELSE restless

StorefrontInit ==
    /\ stored = <<>>
    /\ cart = [t \in Tabs |-> <<>>]
    /\ page = [t \in Tabs |-> "closed"]
    /\ loading = [t \in Tabs |-> FALSE]
    /\ pending = [t \in Tabs |-> <<>>]
    /\ redirects = [t \in Tabs |-> 0]
    /\ restless = {} /\ outdated = {}

OpenTab(t) ==
    /\ ~Open(t)
    /\ page' = [page EXCEPT ![t] = "catalogo"]
    /\ cart' = [cart EXCEPT ![t] = stored]
    /\ UNCHANGED <<stored, loading, pending, redirects, restless, outdated>>

\* Callbacks and timers go with the tab; localStorage stays.
CloseTab(t) ==
    /\ Open(t)
    /\ page' = [page EXCEPT ![t] = "closed"]
    /\ cart' = [cart EXCEPT ![t] = <<>>]
    /\ loading' = [loading EXCEPT ![t] = FALSE]
    /\ pending' = [pending EXCEPT ![t] = <<>>]
    /\ redirects' = [redirects EXCEPT ![t] = 0]
    /\ restless' = restless \ {t} /\ outdated' = outdated \ {t}
    /\ UNCHANGED stored

\* A link of the page or of the header.
GoTo(t, next) ==
    /\ Open(t) /\ next \notin {page[t], "closed"}
    /\ LeavePage(t, next)
    /\ UNCHANGED <<stored, cart, redirects, outdated>>

Raised(g, n) == IF n < Least[g] THEN Least[g] ELSE n

\* Mutant of WithAdded: a product already in the cart gets a second line.
WithAddedTwice(items, g, n) == Append(items, [good |-> g, qty |-> Raised(g, n)])

WithAdded(items, g, n) ==
    IF HasLine(items, g)
      THEN [i \in DOMAIN items |-> IF items[i].good = g
              THEN [items[i] EXCEPT !.qty = @ + Raised(g, n)] ELSE items[i]]
      ELSE Append(items, [good |-> g, qty |-> Raised(g, n)])

\* A card adds the minimum, the product page any quantity from the minimum up.
AddToCart(t) ==
    \E g \in Goods, n \in 1..MaxQty :
       /\ page[t] = "catalogo"
       /\ LET items == WithAdded(cart[t], g, n) IN
          /\ \A i \in DOMAIN items : items[i].qty <= MaxQty
          /\ SetCart(t, items)
       /\ UNCHANGED <<page, loading, pending, redirects, restless>>

\* The buttons - and + of a line.
UpdateQuantidade(t) ==
    \E i \in DOMAIN cart[t], d \in {-1, 1} :
       /\ page[t] = "carrinho" /\ cart[t][i].qty + d <= MaxQty
       /\ SetCart(t, [j \in DOMAIN cart[t] |-> IF cart[t][j].good = cart[t][i].good
             THEN [cart[t][j] EXCEPT !.qty = Raised(cart[t][j].good, cart[t][i].qty + d)]
             ELSE cart[t][j]])
       /\ UNCHANGED <<page, loading, pending, redirects, restless>>

\* The lines of items that are not for product g, in their order.
Without(items, g) ==
    LET kept[i \in 0..Len(items)] ==
          IF i = 0 THEN <<>>
          ELSE IF items[i].good = g THEN kept[i - 1] ELSE Append(kept[i - 1], items[i])
    IN kept[Len(items)]

\* remove, and "Limpar carrinho".
RemoveLines(t) ==
    /\ page[t] = "carrinho" /\ cart[t] # <<>>
    /\ \/ SetCart(t, <<>>)
       \/ \E g \in Goods : SetCart(t, Without(cart[t], g))
    /\ UNCHANGED <<page, loading, pending, redirects, restless>>

\* Mutant of MayFinish: the button does not look at the flag.
MayFinishAlways(t) == cart[t] # <<>>

\* The button is off while the component waits or the cart is empty.
MayFinish(t) == cart[t] # <<>> /\ ~loading[t]

\* Mutant of Sent: the order takes the cart another tab may have stored since.
SentStored(t) == stored

Sent(t) == cart[t]

\* finalizar with name and e-mail filled in.
Finalizar(t) ==
    /\ page[t] = "checkout" /\ MayFinish(t)
    /\ Len(pending[t]) + redirects[t] < MaxPending
    /\ loading' = [loading EXCEPT ![t] = TRUE]
    /\ pending' = [pending EXCEPT ![t] = Append(@, [items |-> Sent(t), shown |-> TRUE])]
    /\ UNCHANGED <<stored, cart, page, redirects, restless, outdated>>

\* The answer arrives: all delays are equal, so in the order of the calls.
Answer(t) ==
    /\ pending[t] # <<>>
    /\ SetCart(t, <<>>)
    /\ loading' = [loading EXCEPT ![t] = @ /\ ~Head(pending[t]).shown]
    /\ pending' = [pending EXCEPT ![t] = Tail(@)]
    /\ redirects' = [redirects EXCEPT ![t] = @ + 1]
    /\ UNCHANGED <<page, restless>>

\* setTimeout, 3000 ms: whatever page the tab shows by then.
Redirect(t) ==
    /\ redirects[t] > 0
    /\ redirects' = [redirects EXCEPT ![t] = @ - 1]
    /\ IF page[t] = "catalogo" THEN UNCHANGED <<page, loading, pending, restless>>
                               ELSE LeavePage(t, "catalogo")
    /\ UNCHANGED <<stored, cart, outdated>>

TabStep(t) ==
    \/ OpenTab(t) \/ CloseTab(t) \/ (\E next \in Pages : GoTo(t, next))
    \/ AddToCart(t) \/ UpdateQuantidade(t) \/ RemoveLines(t)
    \/ Finalizar(t) \/ Answer(t) \/ Redirect(t)

StorefrontNext == \E t \in Tabs : TabStep(t)

StorefrontSpec == StorefrontInit /\ [][StorefrontNext]_storefrontVars

---------------------------------------------------------------------------
(* Types; only a checkout that is shown is loading. *)
StorefrontTypeOK ==
    /\ stored \in Seq(CartLine)
    /\ cart \in [Tabs -> Seq(CartLine)]
    /\ page \in [Tabs -> Pages]
    /\ loading \in [Tabs -> BOOLEAN]
    /\ \A t \in Tabs : loading[t] => page[t] = "checkout"
    /\ pending \in [Tabs -> Seq([items : Seq(CartLine), shown : BOOLEAN])]
    /\ redirects \in [Tabs -> Nat]
    /\ restless \subseteq Tabs /\ outdated \subseteq Tabs

WellFormed(items) ==
    /\ \A i \in DOMAIN items : items[i].qty >= Least[items[i].good]
    /\ \A i, j \in DOMAIN items : items[i].good = items[j].good => i = j

(* Whatever the tabs do and load from each other, every cart, stored, shown or *)
(* sent, has one line per product, with at least its minimum quantity.       *)
CartWellFormed ==
    /\ WellFormed(stored)
    /\ \A t \in Tabs : /\ WellFormed(cart[t])
                       /\ \A i \in DOMAIN pending[t] : WellFormed(pending[t][i].items)

(* A tab never has two orders on the way for one cart, unless its checkout    *)
(* was left while it was loading: a new component does not know of the order. *)
OrderedOnce == \A t \in Tabs : Len(pending[t]) > 1 => t \in restless

(* The answer to an order empties a cart that holds exactly what was ordered,  *)
(* and what it empties in localStorage is that cart too, unless the checkout   *)
(* was left meanwhile, or another tab has stored its own cart since this one    *)
(* last loaded or stored: the answer wipes out what that tab has added, which  *)
(* nobody ordered.                                                          *)
ClearsWhatWasOrdered ==
    [][ \A t \in Tabs :
          Open(t) /\ page'[t] # "closed" /\ Len(pending'[t]) < Len(pending[t]) /\ t \notin restless
             => /\ cart[t] = Head(pending[t]).items
                /\ stored = cart[t] \/ t \in outdated ]_storefrontVars
===========================================================================
