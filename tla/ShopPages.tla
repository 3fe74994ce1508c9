------------------------------ MODULE ShopPages ------------------------------
(***************************************************************************)
(* The pages of the Angular storefront that ask the ApiService: catalogue,   *)
(* product and contact, in one tab.                                         *)
(*                                                                         *)
(* Every call answers after a delay of its own kind, so the answers of one   *)
(* kind come in the order of the calls.  Nothing cancels a call: only the     *)
(* flags of the components and the order of the answers keep a page from      *)
(* showing an old one.  Leaving a page destroys its component; what it waits   *)
(* for then changes nothing that is shown.  The cart is in Storefront.        *)
(***************************************************************************)
EXTENDS Integers, Sequences

CONSTANTS
    Produtos,     \* ids of the products
    produtosMock, \* what is known of each
    Categorias, Marcas,   \* getCategorias, getMarcas
    Buscas,       \* texts typed in the search field
    Contem,       \* products whose name or sku includes the text
    Ceps,         \* values typed in the CEP field
    MaxQtd,       \* bound: quantity in the field of the product page
    MaxWaiting    \* bound: calls not answered and timers not fired of a page

\* Of a Produto, what the filters and the fields look at.
Produto == [categoria : Categorias \ {"Todos"}, marca : Marcas \ {"Todas"},
            quantidadeMinima : Nat \ {0}]

ASSUME ShopPagesConstants ==
    /\ "" \notin Buscas /\ "" \notin Ceps
    /\ "Todos" \in Categorias /\ "Todas" \in Marcas
    /\ produtosMock \in [Produtos -> Produto]
    /\ Contem \in [Buscas -> SUBSET Produtos]
    /\ MaxQtd \in Nat /\ MaxWaiting \in Nat

Filtros == [busca : Buscas \cup {""}, categoria : Categorias, marca : Marcas]
SemFiltro == [busca |-> "", categoria |-> "Todos", marca |-> "Todas"]

getProdutos(f) ==
    {p \in Produtos : /\ f.categoria \in {"Todos", produtosMock[p].categoria}
                      /\ f.marca \in {"Todas", produtosMock[p].marca}
                      /\ (f.busca # "" => p \in Contem[f.busca])}

\* A FreteSimulacao is a function of the arguments of calcularFrete, and named by them.
Fretes == [produto : Produtos, cep : Ceps, qtd : Nat]

\* A product page whose id no product has shows its notice for ever: it is "other".
Routes == {"/catalogo", "/contato", "other"} \cup Produtos

VARIABLES
    route,     \* component shown; a product stands for the one of its page
    catalog, detail, contact   \* the component of each page

pageVars == <<route, catalog, detail, contact>>

\* waiting: the calls that have not been answered.
CatalogComponent == [filtro : Filtros, filtrados : SUBSET Produtos, waiting : Seq(Filtros)]
NewCatalog == [filtro |-> SemFiltro, filtrados |-> {}, waiting |-> <<>>]

\* The quantity 0 stands for every value of the field below 1, the empty one included.
ProductDetailComponent ==
    [loaded : BOOLEAN, qtd : Nat, cep : Ceps \cup {""}, frete : SUBSET Fretes,
     loadingFrete : BOOLEAN, waiting : Seq(Fretes), added : BOOLEAN, timers : Nat]
NewDetail == [loaded |-> FALSE, qtd |-> 1, cep |-> "", frete |-> {}, loadingFrete |-> FALSE,
              waiting |-> <<>>, added |-> FALSE, timers |-> 0]

ContatoComponent == [filled : BOOLEAN, loading : BOOLEAN, sucesso : BOOLEAN, erro : BOOLEAN,
                     waiting : Nat]
NewContact == [filled |-> FALSE, loading |-> FALSE, sucesso |-> FALSE, erro |-> FALSE,
               waiting |-> 0]

ShopPagesInit ==
    /\ route = "other"
    /\ catalog = NewCatalog /\ detail = NewDetail /\ contact = NewContact

---------------------------------------------------------------------------
\* The router destroys the component shown and runs ngOnInit of the next one.  It keeps
\* it when both are product pages (a jump in the history), with the product it had.
Navigate(next) ==
    /\ next # route
    /\ ~(route \in Produtos /\ next \in Produtos)
    /\ route' = next
    /\ catalog' = IF next = "/catalogo" THEN [NewCatalog EXCEPT !.waiting = <<SemFiltro>>]
                                        ELSE NewCatalog
    /\ detail' = NewDetail /\ contact' = NewContact

\* filtrar, with the filters as they are now.
Ask(f) ==
    /\ Len(catalog.waiting) < MaxWaiting
    /\ catalog' = [catalog EXCEPT !.filtro = f, !.waiting = Append(@, f)]

\* A field of the filters changes.
Filtrar ==
    LET now == catalog.filtro IN
    /\ route = "/catalogo"
    /\ \/ \E b \in Buscas \cup {""} : b # now.busca /\ Ask([now EXCEPT !.busca = b])
       \/ \E c \in Categorias : c # now.categoria /\ Ask([now EXCEPT !.categoria = c])
       \/ \E m \in Marcas : m # now.marca /\ Ask([now EXCEPT !.marca = m])
    /\ UNCHANGED <<route, detail, contact>>

Limpar ==
    /\ route = "/catalogo" /\ Ask(SemFiltro)
    /\ UNCHANGED <<route, detail, contact>>

ProdutosAnswer ==
    /\ catalog.waiting # <<>>
    /\ catalog' = [catalog EXCEPT !.filtrados = getProdutos(Head(catalog.waiting)),
                                  !.waiting = Tail(@)]
    /\ UNCHANGED <<route, detail, contact>>

---------------------------------------------------------------------------
\* The answer of getProduto; the page shows nothing but a notice before.
ProdutoAnswer ==
    /\ route \in Produtos /\ ~detail.loaded
    /\ detail' = [detail EXCEPT !.loaded = TRUE, !.qtd = produtosMock[route].quantidadeMinima]
    /\ UNCHANGED <<route, catalog, contact>>

\* The buttons - and +, and what is typed in the fields.
EditDetail ==
    /\ detail.loaded
    /\ \/ \E q \in 0..MaxQtd : detail' = [detail EXCEPT !.qtd = q]
       \/ \E c \in Ceps \cup {""} : detail' = [detail EXCEPT !.cep = c]
    /\ UNCHANGED <<route, catalog, contact>>

\* Mutant of MaySimulate: the button does not look at the flag.
MaySimulateAlways == detail.loaded /\ detail.cep # ""

MaySimulate == detail.loaded /\ detail.cep # "" /\ ~detail.loadingFrete

SimularFrete ==
    /\ MaySimulate /\ Len(detail.waiting) < MaxWaiting
    /\ detail' = [detail EXCEPT !.loadingFrete = TRUE,
         !.waiting = Append(@, [produto |-> route, cep |-> detail.cep, qtd |-> detail.qtd])]
    /\ UNCHANGED <<route, catalog, contact>>

FreteAnswer ==
    /\ detail.waiting # <<>>
    /\ detail' = [detail EXCEPT !.frete = {Head(detail.waiting)}, !.loadingFrete = FALSE,
                                !.waiting = Tail(@)]
    /\ UNCHANGED <<route, catalog, contact>>

\* add, without the call of CartService, which is AddToCart of Storefront.
ShowAdded ==
    /\ detail.loaded /\ detail.timers < MaxWaiting
    /\ detail' = [detail EXCEPT !.added = TRUE, !.timers = @ + 1]
    /\ UNCHANGED <<route, catalog, contact>>

\* setTimeout, 2500 ms: the first timer hides the notice of a later add too.
HideAdded ==
    /\ detail.timers > 0
    /\ detail' = [detail EXCEPT !.added = FALSE, !.timers = @ - 1]
    /\ UNCHANGED <<route, catalog, contact>>

---------------------------------------------------------------------------
\* The last required field is filled in, or one of them is emptied.
EditContact ==
    /\ route = "/contato"
    /\ contact' = [contact EXCEPT !.filled = ~@]
    /\ UNCHANGED <<route, catalog, detail>>

\* The button is off while the component waits, and with it the submission by Enter.
Enviar ==
    /\ route = "/contato" /\ ~contact.loading
    /\ contact' = IF contact.filled
         THEN [contact EXCEPT !.erro = FALSE, !.sucesso = FALSE, !.loading = TRUE,
                              !.waiting = @ + 1]
         ELSE [contact EXCEPT !.erro = TRUE, !.sucesso = FALSE]
    /\ UNCHANGED <<route, catalog, detail>>

\* enviarContato never fails.  The form is emptied, what was typed meanwhile with it.
ContatoAnswer ==
    /\ contact.waiting > 0
    /\ contact' = [contact EXCEPT !.loading = FALSE, !.sucesso = TRUE, !.filled = FALSE,
                                  !.waiting = @ - 1]
    /\ UNCHANGED <<route, catalog, detail>>

ShopPagesNext ==
    \/ \E next \in Routes : Navigate(next)
    \/ Filtrar \/ Limpar \/ ProdutosAnswer
    \/ ProdutoAnswer \/ EditDetail \/ SimularFrete \/ FreteAnswer \/ ShowAdded \/ HideAdded
    \/ EditContact \/ Enviar \/ ContatoAnswer

ShopPagesSpec == ShopPagesInit /\ [][ShopPagesNext]_pageVars

---------------------------------------------------------------------------
(* Types; a component that is not shown has its first state. *)
ShopPagesTypeOK ==
    /\ route \in Routes
    /\ catalog \in CatalogComponent /\ detail \in ProductDetailComponent
    /\ contact \in ContatoComponent
    /\ (route # "/catalogo" => catalog = NewCatalog)
    /\ (route \notin Produtos => detail = NewDetail)
    /\ (route # "/contato" => contact = NewContact)

(* What a page shows with nothing spinning cannot be changed any more by a    *)
(* call made before: the list follows the filters once the answers are in, a  *)
(* freight that is shown is that of the last simulation, and the notice of the *)
(* contact page, one at most, is about the last message.                     *)
SettledIsLast ==
    /\ (route = "/catalogo" /\ catalog.waiting = <<>>
           => catalog.filtrados = getProdutos(catalog.filtro))
    /\ (~detail.loadingFrete => detail.waiting = <<>>)
    /\ (~contact.loading => contact.waiting = 0)
    /\ ~(contact.sucesso /\ (contact.erro \/ contact.loading))
===========================================================================
